---- MODULE Spec2Model ----
(***************************************************************************)
(* Incremental scan-cache-extract pipeline of the PBO extraction crate.    *)
(*                                                                         *)
(* The model follows one process that calls extract_pbos repeatedly on the *)
(* same input and cache directories.  The environment owns the input files *)
(* (it may touch an archive between two runs) and the external archive     *)
(* library, whose list and extract operations may fail or succeed with any *)
(* of a small set of results.                                              *)
(*                                                                         *)
(* Representation                                                          *)
(*   Option<T>      None is <<>>, Some(x) is <<x>>                         *)
(*   String         a sequence of one-character strings                    *)
(*   input path     [dir, stem, ext], relative to input_dir                *)
(*   output path    a sequence of components, relative to cache_dir        *)
(*   Result<T>      a record with field ok                                 *)
(***************************************************************************)
EXTENDS Integers, Sequences, FiniteSets, TLC

\* ------------------------------------------------------------------ bounds

\* Number of calls of extract_pbos a behaviour may make.
MaxRuns == 2

\* ------------------------------------------------------- program constants

\* Size of the buffer calculate_file_hash reads the head of the file into.
HashPrefixLen == 4096

\* --------------------------------------------------------------- options

None == <<>>
Some(x) == <<x>>
IsSome(o) == o # <<>>
Unwrap(o) == o[1]

\* ---------------------------------------------------------------- strings

Range(s) == {s[i] : i \in 1..Len(s)}

Min(a, b) == IF a < b THEN a ELSE b

\* str::to_lowercase on the alphabet of the model.
LowerChar(c) ==
    CASE c = "S" -> "s"
      [] c = "Q" -> "q"
      [] c = "F" -> "f"
      [] c = "T" -> "t"
      [] c = "X" -> "x"
      [] OTHER -> c

ToLowercase(s) == [i \in 1..Len(s) |-> LowerChar(s[i])]

IsWhitespace(c) == c = " "

\* str::trim: drop leading and trailing whitespace.
RECURSIVE TrimStart(_)
TrimStart(s) ==
    IF s # <<>> /\ IsWhitespace(Head(s)) THEN TrimStart(Tail(s)) ELSE s

RECURSIVE TrimEnd(_)
TrimEnd(s) ==
    IF s # <<>> /\ IsWhitespace(s[Len(s)])
    THEN TrimEnd(SubSeq(s, 1, Len(s) - 1))
    ELSE s

Trim(s) == TrimEnd(TrimStart(s))

\* str::split(sep): the pieces between separators, empty pieces included.
RECURSIVE SplitFrom(_, _, _)
SplitFrom(s, sep, cur) ==
    IF s = <<>> THEN <<cur>>
    ELSE IF Head(s) = sep
         THEN <<cur>> \o SplitFrom(Tail(s), sep, <<>>)
         ELSE SplitFrom(Tail(s), sep, Append(cur, Head(s)))

Split(s, sep) == SplitFrom(s, sep, <<>>)

\* Index of the last occurrence of c in s, 0 when there is none.
RECURSIVE LastIndexOf(_, _)
LastIndexOf(s, c) ==
    IF s = <<>> THEN 0
    ELSE IF s[Len(s)] = c THEN Len(s)
         ELSE LastIndexOf(SubSeq(s, 1, Len(s) - 1), c)

\* Path::extension of a single-component file name: the part after the last
\* dot; None when there is no dot or when the only dot leads the name.
PathExtension(name) ==
    LET i == LastIndexOf(name, ".")
    IN  IF i <= 1 THEN None ELSE Some(SubSeq(name, i + 1, Len(name)))

\* u64::to_string as ASCII bytes.
RECURSIVE DecimalString(_)
DecimalString(n) ==
    IF n < 10 THEN <<48 + n>>
    ELSE Append(DecimalString(n \div 10), 48 + (n % 10))

\* utils::matches_extension
\* Mutant: the items of the list are compared as they stand between the
\* commas.
MatchesExtensionNoTrim(name, extensions) ==
    IF extensions = <<>> THEN TRUE
    ELSE LET ext == PathExtension(name)
         IN  IF IsSome(ext)
             THEN LET ext_str == ToLowercase(Unwrap(ext))
                      items == Split(extensions, ",")
                  IN  \E i \in 1..Len(items) :
                          ToLowercase(items[i]) = ext_str
             ELSE FALSE

MatchesExtension(name, extensions) ==
    IF extensions = <<>> THEN TRUE
    ELSE LET ext == PathExtension(name)
         IN  IF IsSome(ext)
             THEN LET ext_str == ToLowercase(Unwrap(ext))
                      items == Split(extensions, ",")
                  IN  \E i \in 1..Len(items) :
                          ToLowercase(Trim(items[i])) = ext_str
             ELSE FALSE

\* Vec::iter().filter(p).collect()
RECURSIVE FilterSeq(_, _)
FilterSeq(s, extensions) ==
    IF s = <<>> THEN <<>>
    ELSE IF MatchesExtension(Head(s), extensions)
         THEN <<Head(s)>> \o FilterSeq(Tail(s), extensions)
         ELSE FilterSeq(Tail(s), extensions)

\* -------------------------------------------------------------- the input

\* The archives that may lie under the input directory; the second one lies
\* in a directory named like the first.
PboA == [dir |-> <<>>, stem |-> "a", ext |-> "pbo"]
PboAB == [dir |-> <<"a">>, stem |-> "b", ext |-> "pbo"]

\* A file of the input directory that is no archive.
Readme == [dir |-> <<>>, stem |-> "readme", ext |-> "txt"]

\* The order in which WalkDir yields the archives.
WalkOrder == <<PboA, PboAB, Readme>>

InputPaths == Range(WalkOrder)

PboPaths == {p \in InputPaths : p.ext = "pbo"}

NoFile == [exists |-> FALSE]

\* A file: its bytes, its modification time in seconds, and whether it can
\* be read.
File(content, mtime, readable) ==
    [exists |-> TRUE, content |-> content, mtime |-> mtime, readable |-> readable]

\* The states an input archive may start in: absent, zero bytes, one byte of
\* content, or present but unreadable.
InitialFiles ==
    {NoFile, File(<<>>, 1, TRUE), File(<<80>>, 1, TRUE), File(<<80>>, 1, FALSE)}

\* The configured extension filter: "sqf, TXT"
Extensions == <<"s", "q", "f", ",", " ", "T", "X", "T">>

\* The configured number of parallel threads.
Threads == 1

\* Entry names the archive library may report.
NameSqf == <<"m", ".", "S", "Q", "F">>
NameTxt == <<"n", ".", "t", "x", "t">>
NameBin == <<"b", ".", "x">>
NameNoExt == <<"c">>

\* ------------------------------------------------------- external library

\* Outcomes of list_with_options and list_contents: failure, or a file list
\* and a prefix.
ListOk(names, prefix) == [ok |-> TRUE, names |-> names, prefix |-> prefix]
ListErr == [ok |-> FALSE]

ListOutcomes ==
    {ListErr,
     ListOk(<<NameBin, NameNoExt>>, <<>>),
     ListOk(<<NameSqf, NameBin, NameTxt>>, <<>>)}

\* Outcomes of extract_with_options and extract_files: failure, or the set
\* of files written below the output directory and the lines of stdout.
ExtractOk(written, stdout) == [ok |-> TRUE, written |-> written, stdout |-> stdout]
ExtractErr == [ok |-> FALSE]

\* Lines of stdout: "Extracting <name>", and a line of another kind.
ExtractingPrefix == <<"E", "x", "t", "r", "a", "c", "t", "i", "n", "g", " ">>
LineExtracting(name) == ExtractingPrefix \o name
LineOther == <<" ", "D", "o", "n", "e">>

ExtractOutcomes ==
    {ExtractErr,
     ExtractOk({}, <<LineExtracting(NameSqf), LineExtracting(NameBin)>>),
     ExtractOk({NameSqf}, <<LineOther>>),
     ExtractOk({NameSqf}, <<LineExtracting(NameSqf), LineOther, LineExtracting(NameBin)>>)}

\* ---------------------------------------------------------------- hashing

\* Sha256 and its hex rendering send distinct inputs to distinct strings; a
\* digest is represented by the bytes that were fed to the hasher.
Sha256Hex(bytes) == [sha256 |-> bytes]

\* utils::calculate_file_hash: metadata, modification time and the head of
\* the file; an error when the file cannot be read. The modification time
\* is in seconds relative to the UNIX epoch; duration_since fails for a time
\* before the epoch and unwrap_or_default turns that into zero seconds.
CalculateFileHash(f) ==
    IF ~f.readable THEN [ok |-> FALSE]
    ELSE LET file_size == Len(f.content)
             modified == IF f.mtime < 0 THEN 0 ELSE f.mtime
             bytes_read == Min(Len(f.content), HashPrefixLen)
             buffer == SubSeq(f.content, 1, bytes_read)
         IN  [ok |-> TRUE,
              hash |-> Sha256Hex(DecimalString(file_size) \o DecimalString(modified)
                                 \o (IF bytes_read > 0 THEN buffer ELSE <<>>))]

\* --------------------------------------------------------------- database

\* SkipReason
SkipReasons == {"Empty", "NoMatchingFiles", "InvalidFormat", "Failed", "MissingExpectedFiles"}

\* PboInfo
PboInfo(hash, failed, skip_reason, expected_files, extracted_files) ==
    [hash |-> hash, failed |-> failed, skip_reason |-> skip_reason,
     expected_files |-> expected_files, extracted_files |-> extracted_files]

\* ScanDatabase::default: the empty map.
EmptyDb == [k \in {} |-> None]

\* HashMap::insert
Insert(d, key, info) ==
    [k \in DOMAIN d \cup {key} |-> IF k = key THEN info ELSE d[k]]

\* ScanDatabase::get_pbo_info
GetPboInfo(d, path) == IF path \in DOMAIN d THEN Some(d[path]) ELSE None

\* ScanDatabase::update_pbo
\* Mutant: the file lists of the record that is replaced are kept.
UpdatePboKeepingLists(d, path, hash, failed) ==
    IF path \in DOMAIN d
    THEN Insert(d, path, PboInfo(hash, failed, None, d[path].expected_files,
                                 d[path].extracted_files))
    ELSE Insert(d, path, PboInfo(hash, failed, None, None, None))

UpdatePbo(d, path, hash, failed) ==
    Insert(d, path, PboInfo(hash, failed, None, None, None))

\* ScanDatabase::update_pbo_with_reason
\* Mutant: the record of a processed archive is kept.
UpdatePboWithReasonKeepingProcessed(d, path, hash, failed, reason) ==
    IF path \in DOMAIN d /\ ~d[path].failed THEN d
    ELSE Insert(d, path, PboInfo(hash, failed, Some(reason), None, None))

UpdatePboWithReason(d, path, hash, failed, reason) ==
    Insert(d, path, PboInfo(hash, failed, Some(reason), None, None))

\* ScanDatabase::update_pbo_with_files: the database after the call and the
\* value returned.
\* Mutant: success only when every expected file was extracted.
UpdatePboWithFilesStrict(d, path, hash, expected_files, extracted_files) ==
    LET all_files_extracted ==
            \A i \in 1..Len(expected_files) : expected_files[i] \in Range(extracted_files)
    IN  [db |-> Insert(d, path,
                       PboInfo(hash, ~all_files_extracted,
                               IF all_files_extracted THEN None
                               ELSE Some("MissingExpectedFiles"),
                               Some(expected_files), Some(extracted_files))),
         ret |-> all_files_extracted]

\* Mutant: the record is never marked failed.
UpdatePboWithFilesNeverFailed(d, path, hash, expected_files, extracted_files) ==
    [db |-> Insert(d, path, PboInfo(hash, FALSE, None,
                                    Some(expected_files), Some(extracted_files))),
     ret |-> TRUE]

\* Mutant: a partial extraction is a success that carries a reason.
UpdatePboWithFilesReasonOnPartial(d, path, hash, expected_files, extracted_files) ==
    LET any_files_extracted == extracted_files # <<>>
        all_files_extracted ==
            \A i \in 1..Len(expected_files) : expected_files[i] \in Range(extracted_files)
    IN  [db |-> Insert(d, path,
                       PboInfo(hash, ~any_files_extracted,
                               IF all_files_extracted /\ any_files_extracted THEN None
                               ELSE Some("MissingExpectedFiles"),
                               Some(expected_files), Some(extracted_files))),
         ret |-> any_files_extracted]

UpdatePboWithFiles(d, path, hash, expected_files, extracted_files) ==
    LET any_files_extracted == extracted_files # <<>>
        all_files_extracted ==
            \A i \in 1..Len(expected_files) : expected_files[i] \in Range(extracted_files)
        is_failed == ~any_files_extracted
        skip_reason ==
            IF any_files_extracted
            THEN (IF all_files_extracted THEN None ELSE None)
            ELSE Some("MissingExpectedFiles")
    IN  [db |-> Insert(d, path, PboInfo(hash, is_failed, skip_reason,
                                        Some(expected_files), Some(extracted_files))),
         ret |-> any_files_extracted]

\* ScanStats::default with total set.
NewStats(total) ==
    [total |-> total, processed |-> 0, empty |-> 0, no_matching_files |-> 0,
     invalid_format |-> 0, failed |-> 0, unchanged |-> 0, previously_failed |-> 0,
     missing_expected_files |-> 0]

\* The body of the loop of get_stats for one record.
\* Mutant: a failed record without a reason is counted nowhere.
TallySkippingNoReason(stats, info) ==
    IF info.failed
    THEN CASE info.skip_reason = Some("Empty") -> [stats EXCEPT !.empty = @ + 1]
           [] info.skip_reason = Some("NoMatchingFiles") ->
                  [stats EXCEPT !.no_matching_files = @ + 1]
           [] info.skip_reason = Some("InvalidFormat") ->
                  [stats EXCEPT !.invalid_format = @ + 1]
           [] info.skip_reason = Some("Failed") -> [stats EXCEPT !.failed = @ + 1]
           [] info.skip_reason = Some("MissingExpectedFiles") ->
                  [stats EXCEPT !.missing_expected_files = @ + 1]
           [] info.skip_reason = None -> stats
    ELSE [stats EXCEPT !.processed = @ + 1]

Tally(stats, info) ==
    IF info.failed
    THEN CASE info.skip_reason = Some("Empty") -> [stats EXCEPT !.empty = @ + 1]
           [] info.skip_reason = Some("NoMatchingFiles") ->
                  [stats EXCEPT !.no_matching_files = @ + 1]
           [] info.skip_reason = Some("InvalidFormat") ->
                  [stats EXCEPT !.invalid_format = @ + 1]
           [] info.skip_reason = Some("Failed") -> [stats EXCEPT !.failed = @ + 1]
           [] info.skip_reason = Some("MissingExpectedFiles") ->
                  [stats EXCEPT !.missing_expected_files = @ + 1]
           [] info.skip_reason = None -> [stats EXCEPT !.failed = @ + 1]
    ELSE [stats EXCEPT !.processed = @ + 1]

\* for info in self.pbos.values(): the records of keys, tallied into stats.
RECURSIVE TallyAll(_, _, _)
TallyAll(d, keys, stats) ==
    IF keys = {} THEN stats
    ELSE LET k == CHOOSE x \in keys : TRUE
         IN  TallyAll(d, keys \ {k}, Tally(stats, d[k]))

\* ScanDatabase::get_stats
GetStats(d) == TallyAll(d, DOMAIN d, NewStats(Cardinality(DOMAIN d)))

\* The persisted document: absent, or the JSON text of a ScanDatabase.  An
\* Option field is written as null or as its value.
NoDoc == [exists |-> FALSE]
JsonNull == [json |-> "null"]
ToJson(o) == IF IsSome(o) THEN [json |-> "value", value |-> Unwrap(o)] ELSE JsonNull
FromJson(j) == IF j.json = "null" THEN None ELSE Some(j.value)

\* ScanDatabase::save: serde_json::to_writer_pretty into a created file.
\* Mutant: only the records of processed archives are written.
SaveOnlyProcessed(d) ==
    LET kept == {k \in DOMAIN d : ~d[k].failed}
    IN  [exists |-> TRUE,
         pbos |-> [k \in kept |->
            [hash |-> d[k].hash, failed |-> d[k].failed,
             skip_reason |-> ToJson(d[k].skip_reason),
             expected_files |-> ToJson(d[k].expected_files),
             extracted_files |-> ToJson(d[k].extracted_files)]]]

\* Mutant: an empty list is written as null.
SaveDroppingEmptyLists(d) ==
    LET ListToJson(o) == IF o = Some(<<>>) THEN JsonNull ELSE ToJson(o)
    IN  [exists |-> TRUE,
         pbos |-> [k \in DOMAIN d |->
            [hash |-> d[k].hash, failed |-> d[k].failed,
             skip_reason |-> ToJson(d[k].skip_reason),
             expected_files |-> ListToJson(d[k].expected_files),
             extracted_files |-> ListToJson(d[k].extracted_files)]]]

Save(d) ==
    [exists |-> TRUE,
     pbos |-> [k \in DOMAIN d |->
        [hash |-> d[k].hash, failed |-> d[k].failed,
         skip_reason |-> ToJson(d[k].skip_reason),
         expected_files |-> ToJson(d[k].expected_files),
         extracted_files |-> ToJson(d[k].extracted_files)]]]

\* A field of a JSON object that deserializes into an Option: None when the
\* object lacks the field or holds null.
OptionField(obj, field) ==
    IF field \in DOMAIN obj THEN FromJson(obj[field]) ELSE None

\* serde_json::from_reader::<ScanDatabase>: the text must be a JSON object
\* with a map pbos whose records all have hash and failed.
Parseable(doc) ==
    /\ "pbos" \in DOMAIN doc
    /\ \A k \in DOMAIN doc.pbos : {"hash", "failed"} \subseteq DOMAIN doc.pbos[k]

\* ScanDatabase::load_or_create: the default database when there is no file,
\* the deserialized document when the file parses, an error otherwise.
\* Mutant: a record must have every field of PboInfo.
LoadOrCreateAllFields(doc) ==
    IF ~doc.exists THEN [ok |-> TRUE, db |-> EmptyDb]
    ELSE IF ~Parseable(doc)
            \/ \E k \in DOMAIN doc.pbos :
                  ~({"skip_reason", "expected_files", "extracted_files"}
                        \subseteq DOMAIN doc.pbos[k])
         THEN [ok |-> FALSE]
         ELSE [ok |-> TRUE,
               db |-> [k \in DOMAIN doc.pbos |->
                         PboInfo(doc.pbos[k].hash, doc.pbos[k].failed,
                                 OptionField(doc.pbos[k], "skip_reason"),
                                 OptionField(doc.pbos[k], "expected_files"),
                                 OptionField(doc.pbos[k], "extracted_files"))]]

LoadOrCreate(doc) ==
    IF doc.exists
    THEN IF Parseable(doc)
         THEN [ok |-> TRUE,
               db |-> [k \in DOMAIN doc.pbos |->
                         PboInfo(doc.pbos[k].hash, doc.pbos[k].failed,
                                 OptionField(doc.pbos[k], "skip_reason"),
                                 OptionField(doc.pbos[k], "expected_files"),
                                 OptionField(doc.pbos[k], "extracted_files"))]]
         ELSE [ok |-> FALSE]
    ELSE [ok |-> TRUE, db |-> EmptyDb]

\* ------------------------------------------------------------- prescanner

\* PreScanner::check_pbo_hash: Ok(PboHashResult), or an error: the one of
\* calculate_file_hash, or "PBO unchanged".
\* Mutant: an equal hash skips the archive even when it is recorded failed.
CheckPboHashIgnoringFailed(d, path, f) ==
    LET h == CalculateFileHash(f)
    IN  IF ~h.ok THEN [ok |-> FALSE, err |-> "io"]
        ELSE IF path \in DOMAIN d /\ d[path].hash = h.hash
             THEN [ok |-> FALSE, err |-> "PBO unchanged"]
             ELSE [ok |-> TRUE, path |-> path, hash |-> h.hash]

\* Mutant: the database is not consulted.
CheckPboHashAlways(d, path, f) ==
    LET h == CalculateFileHash(f)
    IN  IF ~h.ok THEN [ok |-> FALSE, err |-> "io"]
        ELSE [ok |-> TRUE, path |-> path, hash |-> h.hash]

CheckPboHash(d, path, f) ==
    LET h == CalculateFileHash(f)
    IN  IF ~h.ok THEN [ok |-> FALSE, err |-> "io"]
        ELSE LET info == GetPboInfo(d, path)
                 needs_processing ==
                    IF IsSome(info)
                    THEN (IF ~Unwrap(info).failed /\ Unwrap(info).hash = h.hash
                          THEN FALSE
                          ELSE IF Unwrap(info).failed THEN TRUE ELSE TRUE)
                    ELSE TRUE
             IN  IF ~needs_processing
                 THEN [ok |-> FALSE, err |-> "PBO unchanged"]
                 ELSE [ok |-> TRUE, path |-> path, hash |-> h.hash]

\* ------------------------------------------------------------ coordinator

\* The archives WalkDir finds under input_dir, in walk order: the entries
\* whose extension is "pbo".
RECURSIVE WalkPbos(_, _)
WalkPbos(order, fs) ==
    IF order = <<>> THEN <<>>
    ELSE IF fs[Head(order)].exists /\ Head(order).ext = "pbo"
         THEN <<Head(order)>> \o WalkPbos(Tail(order), fs)
         ELSE WalkPbos(Tail(order), fs)

\* ScanCoordinator::scan_pbo given the outcome of list_with_options: a
\* zero-byte file yields no expected files without a listing; a failed
\* listing is an error; otherwise the listed names that match the filter.
ScanPboResult(f, lr) ==
    IF Len(f.content) = 0 THEN [ok |-> TRUE, expected_files |-> <<>>]
    ELSE IF ~lr.ok THEN [ok |-> FALSE, expected_files |-> <<>>]
         ELSE [ok |-> TRUE, expected_files |-> FilterSeq(lr.names, Extensions)]

\* -------------------------------------------------------------- processor

\* PboProcessor::should_skip_extraction
ShouldSkipExtraction(d, path, hash) ==
    LET info == GetPboInfo(d, path)
    IN  IsSome(info) /\ ~Unwrap(info).failed /\ Unwrap(info).hash = hash

\* process_pbo before prepare_output_dirs: return at once when the archive
\* is already processed, record NoMatchingFiles when nothing is expected,
\* extract otherwise.
\* Mutant: the list of expected files is not checked.
ProcessPboBranchNoEmptyCheck(d, path, hash, expected_files) ==
    IF ShouldSkipExtraction(d, path, hash) THEN "skip" ELSE "extract"

\* Mutant: the list of expected files is checked before the database.
ProcessPboBranchEmptyFirst(d, path, hash, expected_files) ==
    IF expected_files = <<>> THEN "no_matching"
    ELSE IF ShouldSkipExtraction(d, path, hash) THEN "skip"
    ELSE "extract"

ProcessPboBranch(d, path, hash, expected_files) ==
    IF ShouldSkipExtraction(d, path, hash) THEN "skip"
    ELSE IF expected_files = <<>> THEN "no_matching"
    ELSE "extract"

\* cache_dir.join(rel_path).with_extension(""), relative to cache_dir.
BaseDir(path) == path.dir \o <<path.stem>>

IsPrefixOf(dir, file) ==
    Len(dir) <= Len(file) /\ SubSeq(file, 1, Len(dir)) = dir

\* WalkDir::new(dir) counting regular files among the extracted files.
CountFilesUnder(files_on_disk, dir) ==
    Cardinality({f \in files_on_disk : IsPrefixOf(dir, f)})

\* str::strip_prefix
StripPrefix(s, prefix) ==
    IF IsPrefixOf(prefix, s) THEN Some(SubSeq(s, Len(prefix) + 1, Len(s))) ELSE None

\* handle_successful_extraction parsing stdout: of every trimmed line that
\* starts with "Extracting ", the rest of the line.
RECURSIVE ParseExtracted(_)
ParseExtracted(stdout) ==
    IF stdout = <<>> THEN <<>>
    ELSE LET file_path == StripPrefix(Trim(Head(stdout)), ExtractingPrefix)
         IN  IF IsSome(file_path)
             THEN <<Unwrap(file_path)>> \o ParseExtracted(Tail(stdout))
             ELSE ParseExtracted(Tail(stdout))

\* ------------------------------------------------------------------ state

VARIABLES
    inputExists,  \* whether input_dir exists
    files,        \* the files under input_dir, by path
    dbFile,       \* cache_dir/scan_db.json
    disk,         \* the extracted files under cache_dir, as output paths
    pc,           \* where extract_pbos / ScanCoordinator::run stands
    result,       \* what the last call of extract_pbos returned
    db,           \* ScanCoordinator::db, the database behind the mutex
    todo,         \* scan_all: the archives not yet hash-checked
    hashResults,  \* scan_all: results, later run's hash_results
    scan,         \* run: outcome of scan_pbo per archive
    proc,         \* process_all: where process_pbo stands per archive
    run,          \* number of calls of extract_pbos so far
    reached,      \* the furthest stage the current call got to
    lastCheck,    \* the last call of check_pbo_hash and its result
    calls,        \* per archive, the kinds of calls made for it in this run
    startDoc,     \* scan_db.json as it was when the current call began
    lastCall,     \* the last direct call of a database operation
    guardCount,   \* run: extracted_file_count as the final verification saw it
    cacheDir      \* cache_dir: whether it exists, and whether it can be written

vars == <<inputExists, files, dbFile, disk, pc, result, db, todo, hashResults,
          scan, proc, run, reached, lastCheck, calls, startDoc, lastCall,
          guardCount, cacheDir>>

NoScan == [st |-> "none", expected_files |-> <<>>]
NoProc == [pc |-> "idle", attempt |-> 0, output_dir |-> <<>>, stdout |-> <<>>,
           count |-> 0, warned |-> FALSE, ret |-> "none", tried |-> <<>>]
NoCalls == {}

\* scan_db.json before the first call: absent; text that is not JSON; a
\* document whose record lacks the field failed; a document of an older
\* version whose record, processed with the hash of a one-byte archive, has
\* no skip_reason, expected_files or extracted_files.
UnparseableDoc == [exists |-> TRUE, text |-> "not json"]
BadRecordDoc ==
    [exists |-> TRUE,
     pbos |-> [k \in {PboA} |-> [hash |-> CalculateFileHash(File(<<80>>, 1, TRUE)).hash]]]
OlderDoc ==
    [exists |-> TRUE,
     pbos |-> [k \in {PboA} |-> [hash |-> CalculateFileHash(File(<<80>>, 1, TRUE)).hash,
                                 failed |-> FALSE]]]
InitialDocs == {NoDoc, UnparseableDoc, BadRecordDoc, OlderDoc}

\* The cache directory before the first call: absent or present, and
\* whether directories and files can be created at and below its path.
CacheDirs == [exists : BOOLEAN, writable : BOOLEAN]

OkResult == [ok |-> TRUE, err |-> "none"]
ErrResult(e) == [ok |-> FALSE, err |-> e]

Init ==
    /\ inputExists \in BOOLEAN
    /\ files \in [InputPaths -> InitialFiles]
    /\ inputExists => files[Readme] = File(<<80>>, 1, TRUE)
    /\ ~inputExists => \A p \in InputPaths : files[p] = NoFile
    /\ dbFile \in InitialDocs
    /\ disk = {}
    /\ pc = "returned"
    /\ result = ErrResult("not called")
    /\ db = EmptyDb
    /\ todo = <<>>
    /\ hashResults = <<>>
    /\ scan = [p \in PboPaths |-> NoScan]
    /\ proc = [p \in PboPaths |-> NoProc]
    /\ run = 0
    /\ reached = "none"
    /\ lastCheck = None
    /\ calls = [p \in PboPaths |-> NoCalls]
    /\ startDoc = dbFile
    /\ lastCall = None
    /\ guardCount = None
    /\ cacheDir \in CacheDirs
    /\ dbFile.exists => cacheDir.exists

\* ------------------------------------------------------------ environment

\* Between two calls the environment rewrites an archive in place: the
\* modification time moves to the current second.
Touch(p) ==
    /\ pc = "returned"
    /\ run < MaxRuns
    /\ files[p].exists
    /\ files[p].mtime <= run
    /\ files' = [files EXCEPT ![p].mtime = run + 1]
    /\ UNCHANGED <<cacheDir, guardCount, inputExists, dbFile, disk, pc, result, db, todo, hashResults,
                   scan, proc, run, reached, lastCheck, calls,
                   startDoc, lastCall>>

\* Between two calls the environment clears the extracted files out of the
\* cache directory and leaves scan_db.json in place.
RemoveExtracted ==
    /\ pc = "returned"
    /\ run < MaxRuns
    /\ disk # {}
    /\ disk' = {}
    /\ UNCHANGED <<cacheDir, guardCount, inputExists, files, dbFile, pc, result, db, todo,
                   hashResults, scan, proc, run, reached, lastCheck, calls,
                   startDoc, lastCall>>

\* ------------------------------------------------------ extract_pbos, new

\* extract_pbos up to the call of run: the input directory must exist, the
\* cache directory is created, ScanCoordinator::new loads the database and
\* fails when load_or_create fails.
ExtractPbos ==
    /\ pc = "returned"
    /\ run < MaxRuns
    /\ run' = run + 1
    /\ startDoc' = dbFile
    /\ todo' = <<>>
    /\ hashResults' = <<>>
    /\ lastCheck' = None
    /\ scan' = [p \in PboPaths |-> NoScan]
    /\ proc' = [p \in PboPaths |-> NoProc]
    /\ calls' = [p \in PboPaths |-> NoCalls]
    /\ guardCount' = None
    /\ IF ~inputExists
       THEN /\ result' = ErrResult("Input directory does not exist")
            /\ pc' = "returned"
            /\ reached' = "none"
            /\ db' = db
            /\ cacheDir' = cacheDir
       ELSE IF ~cacheDir.exists /\ ~cacheDir.writable
            THEN /\ result' = ErrResult("create_dir_all")
                 /\ pc' = "returned"
                 /\ reached' = "none"
                 /\ db' = db
                 /\ cacheDir' = cacheDir
            ELSE /\ cacheDir' = [cacheDir EXCEPT !.exists = TRUE]
                 /\ IF ~LoadOrCreate(dbFile).ok
                    THEN /\ result' = ErrResult("load_or_create")
                         /\ pc' = "returned"
                         /\ reached' = "none"
                         /\ db' = db
                    ELSE /\ db' = LoadOrCreate(dbFile).db
                         /\ pc' = "run"
                         /\ reached' = "setup"
                         /\ result' = ErrResult("pending")
    /\ UNCHANGED <<inputExists, files, dbFile, disk, lastCall>>

\* ScanCoordinator::run up to the prescan: what the directory checks and
\* the count of archives decide.
\* Mutant: the count of archives is not checked.
RunSetupNoCountCheck(exists, total_pbo_count) ==
    IF ~exists THEN ErrResult("Input directory does not exist")
    ELSE OkResult

RunSetupResult(exists, total_pbo_count) ==
    IF ~exists THEN ErrResult("Input directory does not exist")
    ELSE IF total_pbo_count = 0 THEN ErrResult("No PBO files found")
    ELSE OkResult

RunSetup ==
    /\ pc = "run"
    /\ LET pbo_paths == WalkPbos(WalkOrder, files)
           r == RunSetupResult(inputExists, Len(pbo_paths))
       IN  IF ~r.ok
           THEN /\ result' = r
                /\ pc' = "returned"
                /\ todo' = <<>>
                /\ reached' = reached
           ELSE /\ result' = result
                /\ pc' = "stage1"
                /\ todo' = pbo_paths
                /\ reached' = "stage1"
    /\ UNCHANGED <<cacheDir, guardCount, inputExists, files, dbFile, disk, db, hashResults, scan, proc,
                   run, lastCheck, calls, startDoc, lastCall>>

\* ---------------------------------------------------------------- stage 1

\* PreScanner::scan_all: the chunks are spawned and awaited one after the
\* other, and each chunk checks its archives in order.
CheckHash ==
    /\ pc = "stage1"
    /\ todo # <<>>
    /\ LET path == Head(todo)
           r == CheckPboHash(db, path, files[path])
       IN  /\ hashResults' = IF r.ok
                             THEN Append(hashResults, [path |-> r.path, hash |-> r.hash])
                             ELSE hashResults
           /\ lastCheck' = Some([path |-> path, res |-> r])
           /\ calls' = [calls EXCEPT ![path] = @ \cup {"hash"}]
    /\ todo' = Tail(todo)
    /\ UNCHANGED <<cacheDir, guardCount, inputExists, files, dbFile, disk, pc, result, db, scan, proc,
                   run, reached, startDoc, lastCall>>

HashPaths == {hashResults[i].path : i \in 1..Len(hashResults)}

\* The hash the PboHashResult of an archive carries into its PboScanResult.
\* Mutant: every scan result carries the hash of the first hash result.
HashOfFirst(p) == hashResults[1].hash

HashOf(p) == hashResults[CHOOSE i \in 1..Len(hashResults) : hashResults[i].path = p].hash

\* scan_all returns, and run goes on, when the stream of chunks is at its
\* end: every archive found has been checked.
\* Mutant: run goes on while archives are still to be checked.
ScanAllReturnsEarly(paths_left) == TRUE

ScanAllReturns(paths_left) == paths_left = <<>>

\* run after scan_all: nothing to do when no archive needs processing.
Stage1Done ==
    /\ pc = "stage1"
    /\ ScanAllReturns(todo)
    /\ IF hashResults = <<>>
       THEN /\ result' = OkResult
            /\ pc' = "returned"
            /\ scan' = scan
            /\ reached' = reached
       ELSE /\ result' = result
            /\ pc' = "stage2"
            /\ scan' = [p \in PboPaths |->
                          IF p \in HashPaths
                          THEN [st |-> "pending", expected_files |-> <<>>]
                          ELSE NoScan]
            /\ reached' = "stage2"
    /\ UNCHANGED <<cacheDir, guardCount, inputExists, files, dbFile, disk, db, todo, hashResults, proc,
                   run, lastCheck, calls, startDoc, lastCall>>

\* ---------------------------------------------------------------- stage 2

\* run, the par_iter over hash_results: scan_pbo for one archive.
ScanPbo(p) ==
    /\ pc = "stage2"
    /\ scan[p].st = "pending"
    /\ \E lr \in ListOutcomes :
          LET r == ScanPboResult(files[p], lr)
          IN  scan' = [scan EXCEPT ![p] =
                         [st |-> IF r.ok THEN "ok" ELSE "err",
                          expected_files |-> r.expected_files]]
    /\ calls' = [calls EXCEPT ![p] =
                    IF Len(files[p].content) = 0 THEN @ ELSE @ \cup {"list"}]
    /\ UNCHANGED <<cacheDir, guardCount, inputExists, files, dbFile, disk, pc, result, db, todo,
                   hashResults, proc, run, reached, lastCheck,
                   startDoc, lastCall>>

\* The archives of scan_results: those whose scan did not fail.
ScanPaths == {p \in PboPaths : scan[p].st = "ok"}

RECURSIVE SumExpected(_)
SumExpected(ps) ==
    IF ps = {} THEN 0
    ELSE LET p == CHOOSE q \in ps : TRUE
         IN  Len(scan[p].expected_files) + SumExpected(ps \ {p})

\* total_files
TotalFiles == SumExpected(ScanPaths)

\* run after the content scan: return when no file is expected, go on to
\* the extraction otherwise.
\* Mutant: the extraction stage is entered whatever the total.
AfterContentScanAlwaysExtract(total_files) == "stage3"

AfterContentScan(total_files) == IF total_files = 0 THEN "return" ELSE "stage3"

\* run after the content scan: nothing to extract when no file is expected.
Stage2Done ==
    /\ pc = "stage2"
    /\ \A p \in PboPaths : scan[p].st # "pending"
    /\ IF AfterContentScan(TotalFiles) = "return"
       THEN /\ result' = OkResult
            /\ pc' = "returned"
            /\ proc' = proc
            /\ reached' = reached
       ELSE /\ result' = result
            /\ pc' = "stage3"
            /\ proc' = [p \in PboPaths |->
                          IF p \in ScanPaths THEN [NoProc EXCEPT !.pc = "start"]
                          ELSE NoProc]
            /\ reached' = "stage3"
    /\ UNCHANGED <<cacheDir, guardCount, inputExists, files, dbFile, disk, db, todo, hashResults, scan,
                   run, lastCheck, calls, startDoc, lastCall>>

\* ---------------------------------------------------------------- stage 3

\* process_pbo up to prepare_output_dirs: should_skip_extraction reads the
\* database under the lock and releases it; the check for an empty list of
\* expected files follows.
ProcessStart(p) ==
    /\ pc = "stage3"
    /\ proc[p].pc = "start"
    /\ LET branch == ProcessPboBranch(db, p, HashOf(p), scan[p].expected_files)
       IN  IF branch = "skip"
           THEN proc' = [proc EXCEPT ![p].pc = "done", ![p].ret = "ok"]
           ELSE IF branch = "no_matching"
                THEN proc' = [proc EXCEPT ![p].pc = "no_matching"]
                ELSE proc' = [proc EXCEPT ![p].pc = "prepare"]
    /\ UNCHANGED <<cacheDir, guardCount, inputExists, files, dbFile, disk, pc, result, db, todo,
                   hashResults, scan, run, reached, lastCheck, calls, startDoc,
                   lastCall>>

\* process_pbo with nothing expected: the lock is taken again and
\* NoMatchingFiles is recorded.
RecordNoMatching(p) ==
    /\ pc = "stage3"
    /\ proc[p].pc = "no_matching"
    /\ db' = UpdatePboWithReason(db, p, HashOf(p), TRUE, "NoMatchingFiles")
    /\ proc' = [proc EXCEPT ![p].pc = "done", ![p].ret = "ok"]
    /\ UNCHANGED <<cacheDir, guardCount, inputExists, files, dbFile, disk, pc, result, todo, hashResults,
                   scan, run, reached, lastCheck, calls, startDoc, lastCall>>

\* prepare_output_dirs: create_dir_all(base_dir) fails when the cache
\* directory cannot be written, which ends process_pbo with an error and no
\* record; list_contents gives the prefix; a failed listing is recorded as
\* InvalidFormat and ends process_pbo with an error.
PrepareOutputDirs(p) ==
    /\ pc = "stage3"
    /\ proc[p].pc = "prepare"
    /\ IF ~cacheDir.writable
       THEN /\ db' = db
            /\ proc' = [proc EXCEPT ![p] =
                          [NoProc EXCEPT !.pc = "done", !.ret = "err"]]
            /\ calls' = calls
       ELSE /\ \E lr \in ListOutcomes :
                  IF ~lr.ok
                  THEN /\ db' = UpdatePboWithReason(db, p, HashOf(p), TRUE,
                                                    "InvalidFormat")
                       /\ proc' = [proc EXCEPT ![p] =
                                     [NoProc EXCEPT !.pc = "done", !.ret = "err"]]
                  ELSE /\ db' = db
                       /\ proc' = [proc EXCEPT ![p].pc = "extract",
                                               ![p].attempt = 1,
                                               ![p].output_dir = BaseDir(p) \o lr.prefix]
            /\ calls' = [calls EXCEPT ![p] = @ \cup {"list"}]
    /\ UNCHANGED <<cacheDir, guardCount, inputExists, files, dbFile, disk, pc, result, todo, hashResults,
                   scan, run, reached, lastCheck, startDoc, lastCall>>

\* The extraction strategies in the order of the nested matches of
\* extract_pbo_files: extract_with_options with the file filter,
\* extract_with_options without it, extract_files.
Strategies == <<"standard", "permissive", "direct">>

\* extract_pbo_files after the attempt with the given number: on to counting
\* the files when it succeeded, the next strategy when it failed and one is
\* left, the error otherwise.
\* Mutant: extract_files is not tried.
AfterAttemptNoDirect(attempt, ok) ==
    IF ok THEN "count"
    ELSE IF attempt < 2 THEN "next"
    ELSE "err"

AfterAttempt(attempt, ok) ==
    IF ok THEN "count"
    ELSE IF attempt < Len(Strategies) THEN "next"
    ELSE "err"

\* extract_pbo_files, one attempt: standard, then permissive, then direct.
\* When the third attempt fails process_pbo records Failed.
ExtractAttempt(p) ==
    /\ pc = "stage3"
    /\ proc[p].pc = "extract"
    /\ \E er \in ExtractOutcomes :
          LET tried == Append(proc[p].tried,
                              [strategy |-> Strategies[proc[p].attempt], ok |-> er.ok,
                               written |-> IF er.ok THEN er.written ELSE {}])
              after == AfterAttempt(proc[p].attempt, er.ok)
          IN  IF after = "count"
              THEN /\ disk' = disk \cup {proc[p].output_dir \o <<n>> : n \in er.written}
                   /\ proc' = [proc EXCEPT ![p].pc = "verify", ![p].stdout = er.stdout,
                                           ![p].attempt = 0, ![p].tried = tried]
                   /\ db' = db
              ELSE IF after = "next"
                   THEN /\ proc' = [proc EXCEPT ![p].attempt = @ + 1,
                                                ![p].tried = tried]
                        /\ UNCHANGED <<disk, db>>
                   ELSE /\ db' = UpdatePboWithReason(db, p, HashOf(p), TRUE, "Failed")
                        /\ proc' = [proc EXCEPT ![p] =
                                      [NoProc EXCEPT !.pc = "done", !.ret = "ok",
                                                     !.tried = tried]]
                        /\ disk' = disk
    /\ calls' = [calls EXCEPT ![p] = @ \cup {"extract"}]
    /\ UNCHANGED <<cacheDir, guardCount, inputExists, files, dbFile, pc, result, todo, hashResults,
                   scan, run, reached, lastCheck, startDoc, lastCall>>

\* process_pbo after extract_pbo_files returned the count of files on disk:
\* handle_empty_extraction when it is zero, handle_successful_extraction
\* otherwise.
\* Mutant: the count is not looked at.
AfterCountAlwaysSuccessful(extracted_files_on_disk) == "successful"

AfterCount(extracted_files_on_disk) ==
    IF extracted_files_on_disk = 0 THEN "empty" ELSE "successful"

\* extract_pbo_files counting the files on disk, then handle_empty_extraction
\* or handle_successful_extraction.
VerifyExtraction(p) ==
    /\ pc = "stage3"
    /\ proc[p].pc = "verify"
    /\ LET extracted_files_on_disk == CountFilesUnder(disk, proc[p].output_dir)
           extracted_files == ParseExtracted(proc[p].stdout)
           upd == UpdatePboWithFiles(db, p, HashOf(p), scan[p].expected_files,
                                     extracted_files)
       IN  IF AfterCount(extracted_files_on_disk) = "empty"
           THEN /\ db' = UpdatePboWithReason(db, p, HashOf(p), TRUE, "Empty")
                /\ proc' = [proc EXCEPT ![p] =
                              [NoProc EXCEPT !.pc = "done", !.ret = "ok",
                                             !.tried = proc[p].tried]]
           ELSE /\ db' = upd.db
                /\ proc' = [proc EXCEPT ![p] =
                              [NoProc EXCEPT !.pc = "done", !.ret = "ok",
                                             !.tried = proc[p].tried,
                                             !.count = extracted_files_on_disk,
                                             !.warned = ~upd.ret]]
    /\ UNCHANGED <<cacheDir, guardCount, inputExists, files, dbFile, disk, pc, result, todo, hashResults,
                   scan, run, reached, lastCheck, calls, startDoc, lastCall>>

\* process_all: the value returned once every process_pbo has returned.
\* Mutant: an error of process_pbo is returned to run.
ProcessAllPropagating(rets) ==
    IF "err" \in rets THEN ErrResult("process_pbo failed") ELSE OkResult

ProcessAllResult(rets) == OkResult

\* WalkDir::new(cache_dir) counting regular files: the extracted files and
\* the database file.
CountCacheDir(files_on_disk, doc) ==
    Cardinality(files_on_disk) + (IF doc.exists THEN 1 ELSE 0)

\* scan_db.json after the end of run that follows process_all: save_database
\* is reached when process_all returned no error and the verification of
\* the cache directory passed, and save writes the document when the file
\* can be created.
\* Mutant: the database is saved before the verification.
DocAfterStage3SavedFirst(processed, verified, writable, doc, d) ==
    IF processed /\ writable THEN Save(d) ELSE doc

DocAfterStage3(processed, verified, writable, doc, d) ==
    IF processed /\ verified /\ writable THEN Save(d) ELSE doc

\* run after process_all: the verification of the cache directory, then
\* save_database.
Stage3Done ==
    /\ pc = "stage3"
    /\ \A p \in PboPaths : proc[p].pc \in {"idle", "done"}
    /\ LET r == ProcessAllResult({proc[p].ret : p \in ScanPaths})
           extracted_file_count == CountCacheDir(disk, dbFile)
           verified == ~(extracted_file_count = 0 /\ TotalFiles > 0)
       IN  /\ result' = IF ~r.ok THEN r
                        ELSE IF ~verified
                             THEN ErrResult("no files were written to disk")
                             ELSE IF ~cacheDir.writable THEN ErrResult("File::create")
                                  ELSE OkResult
           /\ dbFile' = DocAfterStage3(r.ok, verified, cacheDir.writable, dbFile, db)
    /\ guardCount' = Some(CountCacheDir(disk, dbFile))
    /\ pc' = "returned"
    /\ reached' = "final"
    /\ UNCHANGED <<cacheDir, inputExists, files, disk, db, todo, hashResults, scan, proc,
                   run, lastCheck, calls, startDoc, lastCall>>

\* ---------------------------------------------------------- specification

Next ==
    \/ ExtractPbos
    \/ RunSetup
    \/ CheckHash
    \/ Stage1Done
    \/ \E p \in PboPaths : ScanPbo(p)
    \/ Stage2Done
    \/ \E p \in PboPaths : ProcessStart(p)
    \/ \E p \in PboPaths : RecordNoMatching(p)
    \/ \E p \in PboPaths : PrepareOutputDirs(p)
    \/ \E p \in PboPaths : ExtractAttempt(p)
    \/ \E p \in PboPaths : VerifyExtraction(p)
    \/ Stage3Done
    \/ \E p \in PboPaths : Touch(p)
    \/ RemoveExtracted

Spec == Init /\ [][Next]_vars

\* ------------------------------------------- the database used directly

\* A caller that owns a ScanDatabase and applies its operations to any
\* arguments, as the unit tests of the database do.  The pipeline is idle.

DbHashes == {Sha256Hex(<<49>>), Sha256Hex(<<50>>)}

DbFileLists == {<<>>, <<NameSqf, NameTxt>>, <<NameSqf, NameBin>>}

DbInit ==
    /\ inputExists = FALSE
    /\ files = [p \in InputPaths |-> NoFile]
    /\ dbFile = NoDoc
    /\ disk = {}
    /\ pc = "returned"
    /\ result = ErrResult("not called")
    /\ db = EmptyDb
    /\ todo = <<>>
    /\ hashResults = <<>>
    /\ scan = [p \in PboPaths |-> NoScan]
    /\ proc = [p \in PboPaths |-> NoProc]
    /\ run = 0
    /\ reached = "none"
    /\ lastCheck = None
    /\ calls = [p \in PboPaths |-> NoCalls]
    /\ startDoc = NoDoc
    /\ lastCall = None
    /\ guardCount = None
    /\ cacheDir = [exists |-> FALSE, writable |-> TRUE]

pipelineVars == <<inputExists, files, dbFile, disk, pc, result, todo, hashResults,
                  scan, proc, run, reached, lastCheck, calls, startDoc, guardCount,
                  cacheDir>>

\* db.update_pbo_with_files(path, hash, expected_files, extracted_files)
DbUpdatePboWithFiles ==
    /\ \E path \in PboPaths, hash \in DbHashes,
          expected_files \in DbFileLists, extracted_files \in DbFileLists :
          LET upd == UpdatePboWithFiles(db, path, hash, expected_files, extracted_files)
          IN  /\ db' = upd.db
              /\ lastCall' = Some([op |-> "update_pbo_with_files", path |-> path,
                                   hash |-> hash, expected_files |-> expected_files,
                                   extracted_files |-> extracted_files,
                                   ret |-> upd.ret])
    /\ UNCHANGED pipelineVars

\* db.update_pbo_with_reason(path, hash, failed, reason)
DbUpdatePboWithReason ==
    /\ \E path \in PboPaths, hash \in DbHashes, failed \in BOOLEAN,
          reason \in SkipReasons :
          /\ db' = UpdatePboWithReason(db, path, hash, failed, reason)
          /\ lastCall' = Some([op |-> "update_pbo_with_reason", path |-> path,
                               hash |-> hash, failed |-> failed, reason |-> reason])
    /\ UNCHANGED pipelineVars

\* db.update_pbo(path, hash, failed)
DbUpdatePbo ==
    /\ \E path \in PboPaths, hash \in DbHashes, failed \in BOOLEAN :
          /\ db' = UpdatePbo(db, path, hash, failed)
          /\ lastCall' = Some([op |-> "update_pbo", path |-> path,
                               hash |-> hash, failed |-> failed])
    /\ UNCHANGED pipelineVars

\* db.get_stats()
DbGetStats ==
    /\ lastCall' = Some([op |-> "get_stats", stats |-> GetStats(db)])
    /\ db' = db
    /\ UNCHANGED pipelineVars

\* db.get_pbo_info(path)
DbGetPboInfo ==
    /\ \E path \in PboPaths :
          lastCall' = Some([op |-> "get_pbo_info", path |-> path,
                            ret |-> GetPboInfo(db, path)])
    /\ db' = db
    /\ UNCHANGED pipelineVars

DbNext ==
    \/ DbGetStats
    \/ DbGetPboInfo
    \/ DbUpdatePboWithFiles
    \/ DbUpdatePboWithReason
    \/ DbUpdatePbo

DbSpec == DbInit /\ [][DbNext]_vars

\* ================================================================= claims

\* What the database says about an archive whose file is f: processed, with
\* the hash the file has now.
SuccessAtCurrentHash(d, p, f) ==
    /\ p \in DOMAIN d
    /\ ~d[p].failed
    /\ CalculateFileHash(f).ok
    /\ d[p].hash = CalculateFileHash(f).hash

\* The current call of extract_pbos constructed a ScanCoordinator, whose
\* database db is.
Constructed == reached # "none"

\* The database the current run loaded.
Loaded == IF LoadOrCreate(startDoc).ok THEN LoadOrCreate(startDoc).db ELSE EmptyDb

\* C1: for an archive whose fingerprint can be computed, check_pbo_hash
\* reports "PBO unchanged" if and only if the database holds a record for the
\* path that is not failed and whose hash equals the current fingerprint; in
\* every other case it returns the path with the current fingerprint.
C1_ChangeDetectorDecision ==
    (pc \in {"stage1", "stage2"} /\ IsSome(lastCheck)) =>
        LET c == Unwrap(lastCheck)
            h == CalculateFileHash(files[c.path])
            skip == /\ c.path \in DOMAIN db
                    /\ ~db[c.path].failed
                    /\ db[c.path].hash = h.hash
        IN  h.ok =>
              /\ (c.res = [ok |-> FALSE, err |-> "PBO unchanged"]) <=> skip
              /\ ~skip => c.res = [ok |-> TRUE, path |-> c.path, hash |-> h.hash]

\* C1 witness: the check has just skipped an archive recorded as processed.
C1_Witness ==
    /\ pc = "stage1"
    /\ IsSome(lastCheck)
    /\ Unwrap(lastCheck).res = [ok |-> FALSE, err |-> "PBO unchanged"]

\* Stage 1 of the current run is complete.
Stage1Complete == reached \in {"stage1", "stage2", "stage3", "final"} /\ todo = <<>>

\* C2 (as claimed): once stage 1 is complete, hash_results holds, exactly
\* once each, the candidates that have no processed record with an equal
\* fingerprint in the loaded database, and no other candidate is left out.
C2_Stage1SelectsAllOthers ==
    Stage1Complete =>
        LET needing == {p \in PboPaths :
                          files[p].exists /\ ~SuccessAtCurrentHash(Loaded, p, files[p])}
        IN  /\ HashPaths = needing
            /\ Len(hashResults) = Cardinality(needing)

\* The last direct call of update_pbo_with_files.
LastUpdateWithFiles ==
    IsSome(lastCall) /\ Unwrap(lastCall).op = "update_pbo_with_files"

\* C3: after update_pbo_with_files(path, hash, expected, extracted) the
\* record of path holds the hash and both lists as given; it is processed
\* with no skip reason if and only if extracted is not empty, failed with
\* reason MissingExpectedFiles if and only if extracted is empty; and the
\* call returned true exactly when the record is processed.
C3_UpdateWithFilesOutcome ==
    LastUpdateWithFiles =>
        LET c == Unwrap(lastCall)
        IN  /\ c.path \in DOMAIN db
            /\ db[c.path].hash = c.hash
            /\ db[c.path].expected_files = Some(c.expected_files)
            /\ db[c.path].extracted_files = Some(c.extracted_files)
            /\ (~db[c.path].failed /\ db[c.path].skip_reason = None)
                   <=> c.extracted_files # <<>>
            /\ (db[c.path].failed
                    /\ db[c.path].skip_reason = Some("MissingExpectedFiles"))
                   <=> c.extracted_files = <<>>
            /\ c.ret <=> ~db[c.path].failed

\* C3 witness: a call whose extracted list misses an expected file and holds
\* a file that was not expected, recorded as processed.
C3_Witness ==
    /\ LastUpdateWithFiles
    /\ LET c == Unwrap(lastCall)
       IN  /\ c.extracted_files # <<>>
           /\ \E i \in 1..Len(c.expected_files) :
                 c.expected_files[i] \notin Range(c.extracted_files)
           /\ \E i \in 1..Len(c.extracted_files) :
                 c.extracted_files[i] \notin Range(c.expected_files)
           /\ ~db[c.path].failed
           /\ c.ret

\* C4 (as claimed): when process_pbo has extracted an archive and verified
\* the result, the record it writes is processed if and only if the number
\* of files under the output directory of the archive is greater than 0.
C4_DiskCountDecidesOutcome ==
    [][\A p \in PboPaths :
          (proc[p].pc = "verify" /\ proc'[p].pc = "done") =>
              (~db'[p].failed <=> CountFilesUnder(disk, proc[p].output_dir) > 0)]_vars

\* The content scan of the current run gave p an empty list of expected
\* files.
ScannedEmpty(p) == scan[p].st = "ok" /\ scan[p].expected_files = <<>>

\* The database records p as failed for want of matching files, with the
\* hash stage 1 computed for it.
RecordedNoMatchingFiles(p) ==
    /\ p \in DOMAIN db
    /\ db[p].failed
    /\ db[p].skip_reason = Some("NoMatchingFiles")
    /\ db[p].hash = HashOf(p)

\* The record of p is as the run loaded it.
RecordAsLoaded(p) ==
    /\ p \in DOMAIN db <=> p \in DOMAIN Loaded
    /\ p \in DOMAIN db => db[p] = Loaded[p]

\* C5 (as claimed): when a run has returned, every archive whose content
\* scan gave an empty list of expected files is recorded as failed with
\* reason NoMatchingFiles and the hash of the run, and no extraction was
\* called for it.
C5_EmptyExpectedIsRecorded ==
    (pc = "returned" /\ run >= 1) =>
        \A p \in PboPaths :
            ScannedEmpty(p) =>
                RecordedNoMatchingFiles(p) /\ "extract" \notin calls[p]

\* C5 (amended): no extraction is ever called for an archive whose content
\* scan gave an empty list of expected files; when the run has completed
\* stage 3 the archive is recorded as failed with reason NoMatchingFiles and
\* the hash of the run; when the run returned before stage 3, because no
\* scanned archive expects any file, its record is as it was loaded.
C5_EmptyExpectedRecordedInStage3 ==
    \A p \in PboPaths :
        ScannedEmpty(p) =>
            /\ "extract" \notin calls[p]
            /\ (pc = "returned" /\ reached = "final") => RecordedNoMatchingFiles(p)
            /\ (pc = "returned" /\ reached # "final") =>
                   TotalFiles = 0 /\ RecordAsLoaded(p)

\* C5 witness: a run that completed stage 3 and recorded an archive without
\* expected files, beside an archive that expects files.
C5_Witness ==
    /\ pc = "returned"
    /\ reached = "final"
    /\ \E p \in PboPaths : ScannedEmpty(p) /\ RecordedNoMatchingFiles(p)

\* No input file was rewritten since the run before the current one began.
InputUnchanged == \A p \in InputPaths : files[p].exists => files[p].mtime < run

\* No listing and no extraction was called for p in the current run.
NotOpened(p) == "list" \notin calls[p] /\ "extract" \notin calls[p]

\* C6 (as claimed): when a second or later run on an unchanged input has
\* returned, the persisted cache is the one the run before left, and the
\* run called no extraction.
C6_SecondRunIdempotent ==
    (pc = "returned" /\ run >= 2 /\ InputUnchanged) =>
        /\ dbFile = startDoc
        /\ \A p \in PboPaths : "extract" \notin calls[p]

\* Every archive whose hash can be computed is recorded as processed with
\* that hash in the database the run loaded.
AllProcessedAtLoad ==
    \A p \in PboPaths :
        (files[p].exists /\ CalculateFileHash(files[p]).ok) =>
            SuccessAtCurrentHash(Loaded, p, files[p])

\* C6 (amended): when a second or later run on an unchanged input has
\* returned, and the cache it loaded records every archive whose hash can
\* be computed as processed with its current hash, then the persisted cache
\* and the cache in memory are what the run loaded and the run called no
\* listing and no extraction.
C6_SecondRunIdempotentWhenAllProcessed ==
    (pc = "returned" /\ run >= 2 /\ InputUnchanged /\ AllProcessedAtLoad) =>
        /\ dbFile = startDoc
        /\ Constructed => db = Loaded
        /\ \A p \in PboPaths : NotOpened(p)

\* C6 witness: a second run has returned on an unchanged input, having
\* hashed an archive the first run recorded as processed.
C6_Witness ==
    /\ pc = "returned"
    /\ run = 2
    /\ InputUnchanged
    /\ AllProcessedAtLoad
    /\ \E p \in PboPaths : "hash" \in calls[p] /\ p \in DOMAIN Loaded
    /\ dbFile = startDoc

\* The persisted record of p reads as the one the run loaded.
PersistedRecordUnchanged(p) ==
    /\ dbFile.exists
    /\ LoadOrCreate(dbFile).ok
    /\ p \in DOMAIN LoadOrCreate(dbFile).db
    /\ LoadOrCreate(dbFile).db[p] = Loaded[p]

\* C7: an archive that the loaded cache records as processed with the hash
\* the file has now is skipped by the run: no listing and no extraction is
\* called for it, and its record, in memory and persisted, stays as loaded.
C7_ProcessedUnchangedIsSkipped ==
    \A p \in PboPaths :
        (Constructed /\ files[p].exists
            /\ SuccessAtCurrentHash(Loaded, p, files[p])) =>
            /\ NotOpened(p)
            /\ p \in DOMAIN db /\ db[p] = Loaded[p]
            /\ PersistedRecordUnchanged(p)

\* C7 witness: a second run completed stage 3 for another archive and
\* skipped an archive it had hashed and found processed and unchanged.
C7_Witness ==
    /\ pc = "returned"
    /\ run = 2
    /\ reached = "final"
    /\ result.ok
    /\ \E p \in PboPaths :
          /\ files[p].exists
          /\ SuccessAtCurrentHash(Loaded, p, files[p])
          /\ calls[p] = {"hash"}

\* The verification of the cache directory at the end of run: the error is
\* raised when files were expected and the directory holds none.
GuardFails == IsSome(guardCount) /\ Unwrap(guardCount) = 0 /\ TotalFiles > 0

\* C8: when a run has completed stage 3 and passed the verification of the
\* cache directory, and the cache directory can be written, scan_db.json
\* exists and loading it gives every record of the database the run ended
\* with, failed records included; when the file cannot be created the run
\* returns the error of save.
C8_CachePersistedAfterStage3 ==
    (pc = "returned" /\ reached = "final" /\ ~GuardFails) =>
        IF cacheDir.writable
        THEN /\ dbFile.exists
             /\ LoadOrCreate(dbFile) = [ok |-> TRUE, db |-> db]
        ELSE result = ErrResult("File::create") /\ dbFile = startDoc

\* C8 witness: such a run has written a failed record that it did not load.
C8_Witness ==
    /\ pc = "returned"
    /\ reached = "final"
    /\ ~GuardFails
    /\ \E p \in DOMAIN db : db[p].failed /\ p \notin DOMAIN Loaded

\* The checks before stage 1 fail: no input directory, or no archive.
SetupFails == ~inputExists \/ WalkPbos(WalkOrder, files) = <<>>

\* The cache directory is absent and cannot be created.
CacheDirFails == ~cacheDir.exists /\ ~cacheDir.writable

\* C9: a returned run is successful exactly when its setup succeeded (the
\* input directory exists, the cache directory exists or was created, the
\* database was loaded, there is an archive) and, if it completed stage 3,
\* the verification of the cache directory passed and the database could be
\* saved; what was recorded for the archives plays no part.
C9_ResultIgnoresArchiveOutcomes ==
    (pc = "returned" /\ run >= 1) =>
        (result.ok <=> (/\ ~SetupFails
                        /\ ~CacheDirFails
                        /\ LoadOrCreate(startDoc).ok
                        /\ ~(reached = "final" /\ GuardFails)
                        /\ ~(reached = "final" /\ ~cacheDir.writable)))

\* C9 witness: a successful run in which process_pbo returned an error for
\* an archive, recorded as failed.
C9_Witness ==
    /\ pc = "returned"
    /\ reached = "final"
    /\ result.ok
    /\ \E p \in PboPaths : proc[p].ret = "err" /\ p \in DOMAIN db /\ db[p].failed

\* C10: a run whose input directory is missing or holds no archive returns
\* an error, having made no hash, listing or extraction call, with the
\* database in memory and the persisted one as they were.
C10_SetupErrorWithoutWork ==
    (pc = "returned" /\ run >= 1 /\ SetupFails) =>
        /\ ~result.ok
        /\ \A p \in PboPaths : calls[p] = NoCalls
        /\ Constructed => db = Loaded
        /\ dbFile = startDoc

\* C10 witness: the input directory exists and holds no archive.
C10_Witness ==
    /\ pc = "returned"
    /\ run >= 1
    /\ inputExists
    /\ WalkPbos(WalkOrder, files) = <<>>
    /\ result = ErrResult("No PBO files found")

\* C11 (as claimed): when run goes from stage 3 to its return, having
\* expected files and with no extracted file in the cache directory, it
\* returns the verification error; scan_db.json is not an extracted file.
C11_GuardCountsExtractedFiles ==
    [][(pc = "stage3" /\ pc' = "returned" /\ TotalFiles > 0 /\ disk = {}) =>
           result' = ErrResult("no files were written to disk")]_vars

\* C12 (as claimed): a run whose cache directory cannot be written returns
\* an error without having hashed, listed or extracted any archive; a cache
\* directory that was absent and can be written exists after the setup.
C12_UnwritableCacheFailsAtSetup ==
    (pc = "returned" /\ run >= 1 /\ inputExists) =>
        /\ cacheDir.writable => cacheDir.exists
        /\ ~cacheDir.writable =>
               ~result.ok /\ \A p \in PboPaths : calls[p] = NoCalls

\* C13 (as claimed): when a run has returned, every archive whose listing
\* failed in the content scan is recorded as failed with reason
\* InvalidFormat and the hash of the run.
C13_ScanFailureRecordedInvalidFormat ==
    (pc = "returned" /\ run >= 1) =>
        \A p \in PboPaths :
            scan[p].st = "err" =>
                /\ p \in DOMAIN db
                /\ db[p].failed
                /\ db[p].skip_reason = Some("InvalidFormat")
                /\ db[p].hash = HashOf(p)

\* The content scan of the current run is over and run has moved on.
ScanComplete == reached \in {"stage2", "stage3", "final"} /\ pc # "stage2"

\* C14: when the content scan of a run is over and the expected files of
\* all scan results add up to zero, the run has returned success without
\* entering the extraction stage: no extraction was called and process_pbo
\* was started for no archive.
C14_NoExpectedFilesEndsRun ==
    (run >= 1 /\ ScanComplete /\ TotalFiles = 0) =>
        /\ pc = "returned"
        /\ result.ok
        /\ reached = "stage2"
        /\ \A p \in PboPaths : "extract" \notin calls[p] /\ proc[p] = NoProc

\* C14 witness: such a run, with two archives scanned, one of which lists
\* files that the filter rejects.
C14_Witness ==
    /\ pc = "returned"
    /\ ScanComplete
    /\ TotalFiles = 0
    /\ \A p \in PboPaths : scan[p].st = "ok"
    /\ \E p \in PboPaths : "list" \in calls[p]

\* The record of p is processed.
IsSuccess(d, p) == p \in DOMAIN d /\ ~d[p].failed

\* The record of p has a list of extracted files, and it is not empty.
HasExtractedFiles(d, p) ==
    IsSome(d[p].extracted_files) /\ Unwrap(d[p].extracted_files) # <<>>

\* C15 (as claimed): every processed record of the database has a list of
\* extracted files, and the list is not empty.
C15_SuccessHasExtractedFiles ==
    \A p \in DOMAIN db : IsSuccess(db, p) => HasExtractedFiles(db, p)

\* C15 (amended): a processed record either has both lists, the extracted
\* one not empty (written by update_pbo_with_files), or has neither list
\* (written by update_pbo or update_pbo_with_reason with failed = false).
C15_SuccessHasExtractedFilesOrNoLists ==
    \A p \in DOMAIN db :
        IsSuccess(db, p) =>
            \/ IsSome(db[p].expected_files) /\ HasExtractedFiles(db, p)
            \/ db[p].expected_files = None /\ db[p].extracted_files = None

\* C15 witness: a processed record with extracted files beside a processed
\* record without lists.
C15_Witness ==
    /\ \E p \in DOMAIN db : IsSuccess(db, p) /\ HasExtractedFiles(db, p)
    /\ \E p \in DOMAIN db : IsSuccess(db, p) /\ db[p].extracted_files = None

\* C16 (as claimed): a processed record of the database never has a skip
\* reason.
C16_ReasonOnlyWhenFailed ==
    \A p \in DOMAIN db : IsSuccess(db, p) => db[p].skip_reason = None

\* C16 (amended): a processed record that has a skip reason has no lists: it
\* was written by update_pbo_with_reason with failed = false, which stores
\* the reason it is given; update_pbo and update_pbo_with_files never leave
\* a processed record with a reason.
C16_ReasonOnSuccessOnlyFromUpdateWithReason ==
    /\ \A p \in DOMAIN db :
          (IsSuccess(db, p) /\ IsSome(db[p].skip_reason)) =>
              db[p].expected_files = None /\ db[p].extracted_files = None
    /\ (IsSome(lastCall)
            /\ Unwrap(lastCall).op \in {"update_pbo", "update_pbo_with_files"}
            /\ IsSuccess(db, Unwrap(lastCall).path)) =>
           db[Unwrap(lastCall).path].skip_reason = None
    /\ (IsSome(lastCall) /\ Unwrap(lastCall).op = "update_pbo_with_reason") =>
           LET c == Unwrap(lastCall)
           IN  db[c.path].skip_reason = Some(c.reason) /\ db[c.path].failed = c.failed

\* C16 witness: update_pbo_with_files has just recorded a partial extraction
\* as processed, without a reason, beside a processed record with a reason.
C16_Witness ==
    /\ LastUpdateWithFiles
    /\ LET c == Unwrap(lastCall)
       IN  /\ IsSuccess(db, c.path)
           /\ \E i \in 1..Len(c.expected_files) :
                 c.expected_files[i] \notin Range(c.extracted_files)
    /\ \E p \in DOMAIN db : IsSuccess(db, p) /\ IsSome(db[p].skip_reason)

\* The number of failed records of d whose reason is r.
FailedWith(d, r) == Cardinality({p \in DOMAIN d : d[p].failed /\ d[p].skip_reason = r})

\* The last direct call was get_stats.
LastGetStats == IsSome(lastCall) /\ Unwrap(lastCall).op = "get_stats"

\* C17: get_stats returns total = the number of records, processed = the
\* number of processed records, and per reason the number of failed records
\* with that reason, a failed record without a reason counting as Failed;
\* total is processed plus the sum of the reason counts.
C17_StatsTally ==
    LastGetStats =>
        LET st == Unwrap(lastCall).stats
        IN  /\ st.total = Cardinality(DOMAIN db)
            /\ st.processed = Cardinality({p \in DOMAIN db : ~db[p].failed})
            /\ st.empty = FailedWith(db, Some("Empty"))
            /\ st.no_matching_files = FailedWith(db, Some("NoMatchingFiles"))
            /\ st.invalid_format = FailedWith(db, Some("InvalidFormat"))
            /\ st.missing_expected_files = FailedWith(db, Some("MissingExpectedFiles"))
            /\ st.failed = FailedWith(db, Some("Failed")) + FailedWith(db, None)
            /\ st.total = st.processed + st.empty + st.no_matching_files
                            + st.invalid_format + st.failed
                            + st.missing_expected_files

\* C17 witness: statistics of a database with a processed record and a
\* failed record without a reason.
C17_Witness ==
    /\ LastGetStats
    /\ Unwrap(lastCall).stats.processed = 1
    /\ Unwrap(lastCall).stats.failed = 1
    /\ FailedWith(db, None) = 1

\* The fields of PboInfo that are options.
OptionFields == {"skip_reason", "expected_files", "extracted_files"}

\* The database d holds what the JSON document doc says: the same paths,
\* and per path the hash, the failed flag and every optional field, which is
\* None when the document lacks it or holds null.
ReadsAs(d, doc) ==
    /\ DOMAIN d = DOMAIN doc.pbos
    /\ \A k \in DOMAIN doc.pbos :
          /\ d[k].hash = doc.pbos[k].hash
          /\ d[k].failed = doc.pbos[k].failed
          /\ \A f \in OptionFields :
                IF f \in DOMAIN doc.pbos[k] /\ doc.pbos[k][f] # JsonNull
                THEN d[k][f] = Some(doc.pbos[k][f].value)
                ELSE d[k][f] = None

\* C18: in a call of extract_pbos that gets as far as loading the database:
\* without scan_db.json the coordinator starts from the empty database and
\* no file is created by the load; with a document that parses, records
\* without skip_reason, expected_files or extracted_files included, the
\* database holds what the document says; with a file that does not parse
\* no coordinator is constructed, the call returns an error and no archive
\* is hashed, listed or extracted.
C18_LoadOrCreate ==
    (run >= 1 /\ inputExists /\ ~CacheDirFails) =>
        /\ ~startDoc.exists =>
               Constructed /\ (pc = "run" => db = EmptyDb /\ dbFile = NoDoc)
        /\ (startDoc.exists /\ startDoc \notin {UnparseableDoc, BadRecordDoc}) =>
               Constructed /\ (pc = "run" => ReadsAs(db, startDoc) /\ dbFile = startDoc)
        /\ startDoc \in {UnparseableDoc, BadRecordDoc} =>
               /\ pc = "returned"
               /\ ~result.ok
               /\ ~Constructed
               /\ dbFile = startDoc
               /\ \A p \in PboPaths : calls[p] = NoCalls /\ proc[p] = NoProc

\* C18 witness: the coordinator has loaded a document of an older version,
\* whose record has no lists and no reason.
C18_Witness ==
    /\ pc = "run"
    /\ startDoc = OlderDoc
    /\ PboA \in DOMAIN db
    /\ db[PboA].extracted_files = None
    /\ db[PboA].skip_reason = None

\* ------------------------------------------------- save and load_or_create

\* The records and the databases save and load_or_create are applied to.
SaveInfos ==
    {PboInfo(hash, failed, skip_reason, expected_files, extracted_files) :
        hash \in DbHashes, failed \in BOOLEAN,
        skip_reason \in {None, Some("Empty")},
        expected_files \in {None, Some(<<>>), Some(<<NameSqf>>)},
        extracted_files \in {None, Some(<<>>), Some(<<NameSqf>>)}}

SaveDbs == UNION {[S -> SaveInfos] : S \in SUBSET PboPaths}

\* A database in memory, and at the path of the document nothing, a file
\* that does not parse, or the document of an earlier save.
SaveInit ==
    /\ inputExists = FALSE
    /\ files = [p \in InputPaths |-> NoFile]
    /\ dbFile \in {NoDoc, UnparseableDoc, OlderDoc}
    /\ disk = {}
    /\ pc = "returned"
    /\ result = ErrResult("not called")
    /\ db \in SaveDbs
    /\ todo = <<>>
    /\ hashResults = <<>>
    /\ scan = [p \in PboPaths |-> NoScan]
    /\ proc = [p \in PboPaths |-> NoProc]
    /\ run = 0
    /\ reached = "none"
    /\ lastCheck = None
    /\ calls = [p \in PboPaths |-> NoCalls]
    /\ startDoc = dbFile
    /\ lastCall = None
    /\ guardCount = None
    /\ cacheDir \in {c \in CacheDirs : c.writable /\ (dbFile.exists => c.exists)}

\* db.save(path): the parent directory is created when it does not exist,
\* File::create truncates what was at path, the database is written.
SaveDatabase ==
    /\ cacheDir' = [cacheDir EXCEPT !.exists = TRUE]
    /\ dbFile' = Save(db)
    /\ lastCall' = Some([op |-> "save", c |-> db, over |-> dbFile])
    /\ UNCHANGED <<guardCount, inputExists, files, disk, pc, result, db, todo,
                   hashResults, scan, proc, run, reached, lastCheck, calls,
                   startDoc>>

\* ScanDatabase::load_or_create(path): the caller gets a new database, or
\* the error. The call before it is kept when it was a save.
LoadDatabase ==
    /\ LET r == LoadOrCreate(dbFile)
       IN  /\ db' = IF r.ok THEN r.db ELSE db
           /\ lastCall' = Some([op |-> "load_or_create", ok |-> r.ok,
                                before |-> IF IsSome(lastCall) /\ Unwrap(lastCall).op = "save"
                                           THEN lastCall ELSE None])
    /\ UNCHANGED <<cacheDir, guardCount, inputExists, files, dbFile, disk, pc,
                   result, todo, hashResults, scan, proc, run, reached,
                   lastCheck, calls, startDoc>>

SaveNext ==
    \/ SaveDatabase
    \/ LoadDatabase

SaveSpec == SaveInit /\ [][SaveNext]_vars

\* The call of load_or_create that has just returned came directly after a
\* call of save.
LoadedAfterSave ==
    /\ IsSome(lastCall)
    /\ Unwrap(lastCall).op = "load_or_create"
    /\ IsSome(Unwrap(lastCall).before)

\* C19: load_or_create directly after save(c) at the same path succeeds and
\* returns a database with the paths of c and, for each path, the hash, the
\* failed flag, the reason and both file lists of c, whatever was at the
\* path before the save.
C19_LoadAfterSave ==
    LoadedAfterSave =>
        LET c == Unwrap(Unwrap(lastCall).before).c
        IN  /\ Unwrap(lastCall).ok
            /\ DOMAIN db = DOMAIN c
            /\ \A k \in DOMAIN c :
                  /\ db[k].hash = c[k].hash
                  /\ db[k].failed = c[k].failed
                  /\ db[k].skip_reason = c[k].skip_reason
                  /\ db[k].expected_files = c[k].expected_files
                  /\ db[k].extracted_files = c[k].extracted_files

\* C19 witness: a database without a record of PboA and with an empty list
\* was saved over a document that had a record of PboA, and loaded again.
C19_Witness ==
    /\ LoadedAfterSave
    /\ Unwrap(Unwrap(lastCall).before).over = OlderDoc
    /\ PboA \notin DOMAIN db
    /\ PboAB \in DOMAIN db
    /\ db[PboAB].extracted_files = Some(<<>>)
    /\ db[PboAB].skip_reason = Some("Empty")

\* ------------------------------------------------------ calculate_file_hash

\* n bytes of one value.
Fill(n, b) == [i \in 1..n |-> b]

\* The contents a hashed file may have: nothing, one byte, another byte,
\* exactly the buffer's length, the same with its last byte changed, one
\* byte more than the buffer, the same with that byte changed.
HashContents ==
    {<<>>, <<80>>, <<81>>,
     Fill(HashPrefixLen, 80),
     [Fill(HashPrefixLen, 80) EXCEPT ![HashPrefixLen] = 81],
     Fill(HashPrefixLen + 1, 80),
     [Fill(HashPrefixLen + 1, 80) EXCEPT ![HashPrefixLen + 1] = 81]}

\* Modification times in seconds relative to the UNIX epoch.
HashMtimes == {0 - 2, 0 - 1, 1, 2}

\* One readable file at the path of PboA, not hashed yet.
HashInit ==
    /\ inputExists = TRUE
    /\ \E content \in HashContents, mtime \in HashMtimes :
          files = [p \in InputPaths |->
                      IF p = PboA THEN File(content, mtime, TRUE) ELSE NoFile]
    /\ dbFile = NoDoc
    /\ disk = {}
    /\ pc = "returned"
    /\ result = ErrResult("not called")
    /\ db = EmptyDb
    /\ todo = <<>>
    /\ hashResults = <<>>
    /\ scan = [p \in PboPaths |-> NoScan]
    /\ proc = [p \in PboPaths |-> NoProc]
    /\ run = 0
    /\ reached = "none"
    /\ lastCheck = None
    /\ calls = [p \in PboPaths |-> NoCalls]
    /\ startDoc = NoDoc
    /\ lastCall = None
    /\ guardCount = None
    /\ cacheDir = [exists |-> FALSE, writable |-> TRUE]

hashVars == <<cacheDir, guardCount, inputExists, dbFile, disk, pc, result, db,
              todo, hashResults, scan, proc, run, reached, lastCheck, calls,
              startDoc>>

\* calculate_file_hash(path): the file as it was hashed and the result, with
\* the same of the call before.
HashFile ==
    /\ lastCall' = Some([op |-> "calculate_file_hash",
                         file |-> files[PboA],
                         ret |-> CalculateFileHash(files[PboA]),
                         before |-> IF IsSome(lastCall)
                                    THEN Some([file |-> Unwrap(lastCall).file,
                                               ret |-> Unwrap(lastCall).ret])
                                    ELSE None])
    /\ UNCHANGED files
    /\ UNCHANGED hashVars

\* The environment sets the modification time of the file.
SetModified ==
    /\ \E mtime \in HashMtimes \ {files[PboA].mtime} :
          files' = [files EXCEPT ![PboA].mtime = mtime]
    /\ UNCHANGED lastCall
    /\ UNCHANGED hashVars

\* The environment rewrites the file and leaves its modification time, in
\* whole seconds, as it was.
WriteContent ==
    /\ \E content \in HashContents \ {files[PboA].content} :
          files' = [files EXCEPT ![PboA].content = content]
    /\ UNCHANGED lastCall
    /\ UNCHANGED hashVars

HashNext ==
    \/ HashFile
    \/ SetModified
    \/ WriteContent

HashSpec == HashInit /\ [][HashNext]_vars

\* The file has been hashed twice.
HashedTwice == IsSome(lastCall) /\ IsSome(Unwrap(lastCall).before)

\* The first HashPrefixLen bytes of a file.
HeadOf(f) == SubSeq(f.content, 1, Min(Len(f.content), HashPrefixLen))

\* C20: two computations on an unmodified file give the same fingerprint,
\* and when exactly one of these differs between the two computations, a
\* byte of the first 4096 bytes at equal size, the size, or the modification
\* time in whole seconds, the two fingerprints differ.
C20_FingerprintStableAndSensitive ==
    HashedTwice =>
        LET g == Unwrap(Unwrap(lastCall).before).file
            h1 == Unwrap(Unwrap(lastCall).before).ret
            f == Unwrap(lastCall).file
            h2 == Unwrap(lastCall).ret
            OnlyHead == /\ Len(f.content) = Len(g.content)
                        /\ f.mtime = g.mtime
                        /\ HeadOf(f) # HeadOf(g)
            OnlySize == /\ Len(f.content) # Len(g.content)
                        /\ f.mtime = g.mtime
            OnlyMtime == /\ f.content = g.content
                         /\ f.mtime # g.mtime
        IN  /\ h1.ok /\ h2.ok
            /\ f = g => h2.hash = h1.hash
            /\ (OnlyHead \/ OnlySize \/ OnlyMtime) => h2.hash # h1.hash

\* -------------------------------------------------------- matches_extension

\* File names matches_extension is applied to: with an extension in upper or
\* lower case, with two dots, with an extension that is not listed, without
\* a dot, with a leading dot only, with a trailing dot, and with a space
\* after or before the extension.
MatchNames ==
    {NameSqf, NameTxt, NameBin, NameNoExt,
     <<"m", ".", "s", "q", "f">>,
     <<"a", ".", "b", ".", "t", "x", "t">>,
     <<"m", ".", "s", "q">>,
     <<".", "s", "q", "f">>,
     <<"m", ".">>,
     <<"m", ".", "s", "q", "f", " ">>,
     <<"m", ".", " ", "s", "q", "f">>}

\* Extension lists: empty, one item, upper case, two items with a space,
\* spaces around an item, a trailing comma, a comma alone, a space alone, an
\* item with a space inside, and a list without sqf.
MatchFilters ==
    {<<>>,
     <<"s", "q", "f">>,
     <<"S", "Q", "F">>,
     Extensions,
     <<" ", "s", "q", "f", " ", ",", "x">>,
     <<"s", "q", "f", ",">>,
     <<",">>,
     <<" ">>,
     <<"s", " ", "q", "f">>,
     <<"t", "x", "t", ",", "x">>}

\* Nothing has been called.
MatchInit == DbInit

\* matches_extension(name, extensions)
CallMatchesExtension ==
    /\ \E name \in MatchNames, extensions \in MatchFilters :
          lastCall' = Some([op |-> "matches_extension", name |-> name,
                            extensions |-> extensions,
                            ret |-> MatchesExtension(name, extensions)])
    /\ db' = db
    /\ UNCHANGED pipelineVars

\* Iterator<Item = String>::collect::<String>(): the items one after the
\* other, with nothing between them.
RECURSIVE CollectString(_)
CollectString(items) ==
    IF items = <<>> THEN <<>> ELSE Head(items) \o CollectString(Tail(items))

\* The file_filter of create_extract_options, an Option<String>:
\* Some(extensions.split(',').map(str::to_string).collect()).
FileFilter(extensions) == Some(CollectString(Split(extensions, ",")))

\* create_extract_options of a processor configured with the extensions.
CreateExtractOptions ==
    /\ \E extensions \in MatchFilters :
          lastCall' = Some([op |-> "create_extract_options",
                            extensions |-> extensions,
                            file_filter |-> FileFilter(extensions)])
    /\ db' = db
    /\ UNCHANGED pipelineVars

MatchNext == CallMatchesExtension \/ CreateExtractOptions

MatchSpec == MatchInit /\ [][MatchNext]_vars

\* The positions of the separator c in s, with the positions before the
\* first and after the last character.
Cuts(s, c) == {0, Len(s) + 1} \cup {i \in 1..Len(s) : s[i] = c}

\* The items of a list separated by c: what lies between two neighbouring
\* cuts.
ItemsOf(s, c) ==
    {SubSeq(s, a + 1, b - 1) :
        <<a, b>> \in {x \in Cuts(s, c) \X Cuts(s, c) :
                        x[1] < x[2] /\ \A k \in Cuts(s, c) : ~(x[1] < k /\ k < x[2])}}

\* t is s without the whitespace around it.
IsStripped(t, s) ==
    /\ t = <<>> \/ (~IsWhitespace(t[1]) /\ ~IsWhitespace(t[Len(t)]))
    /\ \E a \in 0..Len(s), b \in 0..Len(s) :
          /\ a + Len(t) + b = Len(s)
          /\ SubSeq(s, a + 1, a + Len(t)) = t
          /\ \A i \in (1..a) \cup ((Len(s) - b + 1)..Len(s)) : IsWhitespace(s[i])

\* The strings are equal up to the case of their letters.
EqualIgnoringCase(a, b) ==
    Len(a) = Len(b) /\ \A i \in 1..Len(a) : LowerChar(a[i]) = LowerChar(b[i])

\* The extensions of a file name: what follows its last dot, when that dot
\* is not the first character. No file name has two.
ExtensionsOf(name) ==
    {SubSeq(name, i + 1, Len(name)) :
        i \in {j \in 2..Len(name) :
                 name[j] = "." /\ \A k \in (j + 1)..Len(name) : name[k] # "."}}

\* C21: matches_extension is true for every name when the list is empty;
\* for a list that is not empty it is true exactly when the name has an
\* extension that equals, up to letter case and to whitespace around the
\* item, one of the items between the commas; a name without an extension
\* does not match a list that is not empty.
C21_MatchesExtension ==
    (IsSome(lastCall) /\ Unwrap(lastCall).op = "matches_extension") =>
        LET c == Unwrap(lastCall)
        IN  /\ c.extensions = <<>> => c.ret
            /\ c.extensions # <<>> =>
                  (c.ret <=>
                     \E ext \in ExtensionsOf(c.name), item \in ItemsOf(c.extensions, ",") :
                        \E t \in {SubSeq(item, a, b) : a \in 1..(Len(item) + 1),
                                                       b \in 0..Len(item)} :
                           IsStripped(t, item) /\ EqualIgnoringCase(t, ext))
            /\ (c.extensions # <<>> /\ ExtensionsOf(c.name) = {}) => ~c.ret

\* C21 witness: a name in lower case matched the item " TXT" of the list
\* "sqf, TXT".
C21_Witness ==
    /\ IsSome(lastCall)
    /\ Unwrap(lastCall).op = "matches_extension"
    /\ Unwrap(lastCall).name = NameTxt
    /\ Unwrap(lastCall).extensions = Extensions
    /\ Unwrap(lastCall).ret

\* process_pbo has returned for the archive in this call of extract_pbos.
ProcessDone(p) == reached \in {"stage3", "final"} /\ proc[p].pc = "done"

\* The record of the archive says Failed with the reason Failed.
RecordedExtractionFailed(p) ==
    /\ p \in DOMAIN db
    /\ db[p].failed
    /\ db[p].skip_reason = Some("Failed")

\* C22: for one archive the strategies are invoked in the order standard,
\* permissive, direct, at most three calls; every call but the last one made
\* has failed; the counting and verification of the files starts after a
\* call that succeeded; and once process_pbo has returned after at least one
\* extraction call, the archive is recorded Failed with the reason Failed,
\* at the hash of its scan result, exactly when all three strategies failed.
\* An archive for which no extraction call was made carries that record
\* only when it was loaded with it.
C22_StrategiesInOrder ==
    \A p \in PboPaths :
        LET t == proc[p].tried
            n == Len(t)
        IN  /\ n <= 3
            /\ \A i \in 1..n : t[i].strategy = Strategies[i]
            /\ \A i \in 1..(n - 1) : ~t[i].ok
            /\ proc[p].pc = "extract" => (proc[p].attempt = n + 1 /\ \A i \in 1..n : ~t[i].ok)
            /\ proc[p].pc = "verify" => (n >= 1 /\ t[n].ok)
            /\ (ProcessDone(p) /\ n >= 1) =>
                  /\ RecordedExtractionFailed(p) <=> (n = 3 /\ ~t[3].ok)
                  /\ RecordedExtractionFailed(p) => db[p].hash = HashOf(p)
            /\ (ProcessDone(p) /\ n = 0 /\ RecordedExtractionFailed(p)) =>
                  (p \in DOMAIN Loaded /\ db[p] = Loaded[p])

\* C22 witness: the standard and the permissive extraction failed, the
\* direct one succeeded and process_pbo recorded a success; for the other
\* archive all three failed.
C22_Witness ==
    /\ ProcessDone(PboA) /\ ProcessDone(PboAB)
    /\ Len(proc[PboA].tried) = 3
    /\ proc[PboA].tried[3].ok
    /\ ~db[PboA].failed
    /\ Len(proc[PboAB].tried) = 3
    /\ ~proc[PboAB].tried[3].ok
    /\ RecordedExtractionFailed(PboAB)

\* process_pbo for the archive has made its skip check, found that the
\* archive must be processed, and has not yet recorded its outcome.
BetweenCheckAndRecord(p) ==
    pc = "stage3" /\ proc[p].pc \in {"no_matching", "prepare", "extract", "verify"}

\* C23: from the skip check of process_pbo for an archive to the recording
\* of its outcome the database is held by that worker: while it is between
\* the two and does not move, the database is not written and no other
\* worker makes its own skip check.
C23_CheckAndRecordInOneSection ==
    [][\A p \in PboPaths :
          (BetweenCheckAndRecord(p) /\ proc'[p] = proc[p]) =>
              /\ db' = db
              /\ \A q \in PboPaths \ {p} :
                    proc[q].pc = "start" => proc'[q].pc = "start"]_vars

\* The record process_pbo writes for an archive whose extraction succeeded
\* and left no file on disk.
RecordedEmpty(p) ==
    /\ p \in DOMAIN db
    /\ db[p].failed
    /\ db[p].skip_reason = Some("Empty")
    /\ db[p].hash = HashOf(p)

\* C24: the outcome recorded for an archive is the one that the results of
\* its own external calls determine, which is the outcome recorded when the
\* archives are processed one after the other, whatever the order in which
\* the workers ran: in a first call, on an empty cache directory, an archive
\* whose extraction succeeded is recorded Empty exactly when that extraction
\* wrote no file.
C24_OutcomeIndependentOfOrder ==
    \A p \in PboPaths :
        LET t == proc[p].tried
        IN  (run = 1 /\ ProcessDone(p) /\ t # <<>> /\ t[Len(t)].ok) =>
                (RecordedEmpty(p) <=> t[Len(t)].written = {})

\* The same external results in the other order: the archive whose
\* extraction wrote nothing was counted before the other one wrote its file,
\* and is recorded Empty.
C24_OtherOrder ==
    /\ run = 1
    /\ ProcessDone(PboA) /\ ProcessDone(PboAB)
    /\ proc[PboA].tried = <<[strategy |-> "standard", ok |-> TRUE, written |-> {}]>>
    /\ proc[PboAB].tried = <<[strategy |-> "standard", ok |-> TRUE, written |-> {NameSqf}]>>
    /\ RecordedEmpty(PboA)
    /\ ~db[PboAB].failed

\* The worker of the archive has derived its output directory and is
\* extracting into it or counting the files under it.
UsesOutputDir(p) == pc = "stage3" /\ proc[p].pc \in {"extract", "verify"}

\* C25: the output directories that two workers use at the same time are
\* disjoint subtrees of the cache directory: neither is the other, and
\* neither lies inside the other.
C25_OutputDirsDisjoint ==
    \A p \in PboPaths : \A q \in PboPaths \ {p} :
        (UsesOutputDir(p) /\ UsesOutputDir(q)) =>
            /\ ~IsPrefixOf(proc[p].output_dir, proc[q].output_dir)
            /\ ~IsPrefixOf(proc[q].output_dir, proc[p].output_dir)

\* C26: when the content scan of an archive has started or ended, the hash
\* check has been made for every archive under the input directory; when
\* process_pbo has started for an archive, or an extraction call has been
\* made, the content scan has ended for every archive that the hash check
\* selected.
C26_StageBarriers ==
    \A p \in PboPaths :
        /\ (scan[p].st \in {"ok", "err"} \/ "list" \in calls[p]) =>
               /\ todo = <<>>
               /\ \A q \in PboPaths : files[q].exists => "hash" \in calls[q]
        /\ (proc[p].pc # "idle" \/ "extract" \in calls[p]) =>
               \A q \in HashPaths : scan[q].st \in {"ok", "err"}

\* C26 witness: an extraction call has been made for one archive while the
\* other, also selected by the hash check, has not been started.
C26_Witness ==
    /\ pc = "stage3"
    /\ HashPaths = {PboA, PboAB}
    /\ "extract" \in calls[PboA]
    /\ proc[PboAB].pc = "start"
    /\ scan[PboAB].st = "ok"

\* The archives a worker of process_all is busy with: process_pbo has
\* started for them and has not returned.
InProcess == {p \in PboPaths : BetweenCheckAndRecord(p)}

\* C27: the number of archives being hashed, listed or extracted at the
\* same time is at most the configured number of threads. The hash checks
\* run one after the other and a content scan is one step, so the extraction
\* stage is where several archives are in progress at once.
C27_ConcurrencyBounded ==
    /\ pc = "stage1" => 1 <= Threads
    /\ pc = "stage3" => Cardinality(InProcess) <= Threads

\* An external call made for the archive in this call of extract_pbos has
\* failed: the listing of the content scan, the listing of
\* prepare_output_dirs, or an extraction strategy.
ExternalCallFailed(p) ==
    \/ scan[p].st = "err"
    \/ proc[p].ret = "err" /\ "list" \in calls[p]
    \/ \E i \in 1..Len(proc[p].tried) : ~proc[p].tried[i].ok

\* C28: when an external call has failed for an archive, the run is not
\* ended by it, every other archive of the extraction stage has returned
\* from process_pbo by the time the stage ends, and the outcome recorded for
\* another archive is the one it reaches without the failing archive: in a
\* first call, on an empty cache directory, an archive whose extraction
\* succeeded is recorded Empty exactly when that extraction wrote no file.
C28_FailureLeavesSiblingsAlone ==
    \A p \in PboPaths : \A q \in PboPaths \ {p} :
        ExternalCallFailed(p) =>
            /\ pc = "returned" => result.err # "process_pbo failed"
            /\ (reached = "final" /\ q \in ScanPaths) => proc[q].pc = "done"
            /\ LET t == proc[q].tried
               IN  (run = 1 /\ ProcessDone(q) /\ t # <<>> /\ t[Len(t)].ok) =>
                       (RecordedEmpty(q) <=> t[Len(t)].written = {})

\* The archive has a Failed record that carries the hash of its hash result
\* of this call.
FailedAtCurrentHash(p) ==
    /\ p \in DOMAIN db
    /\ db[p].failed
    /\ db[p].hash = HashOf(p)

\* C29: once the content scan stage has completed, every archive whose
\* listing failed has a Failed record at its current hash; once the
\* extraction stage has completed, so has every archive for which
\* process_pbo returned an error (output directory or prefix listing), for
\* which all three strategies failed, or whose extraction left no file.
C29_ErrorsBecomeRecords ==
    \A p \in PboPaths :
        /\ (ScanComplete /\ scan[p].st = "err") => FailedAtCurrentHash(p)
        /\ (reached = "final" /\ proc[p].ret = "err") => FailedAtCurrentHash(p)
        /\ (reached = "final" /\ Len(proc[p].tried) = 3 /\ ~proc[p].tried[3].ok) =>
               FailedAtCurrentHash(p)
        /\ (reached = "final" /\ proc[p].tried # <<>>
              /\ proc[p].tried[Len(proc[p].tried)].ok /\ proc[p].count = 0) =>
               FailedAtCurrentHash(p)

\* ------------------------------------------- the processor called directly

\* A caller that builds a PboProcessor over a database it has filled and
\* hands process_all scan results of its own, as
\* test_skip_extraction_for_unchanged_pbo does: the hash of a scan result is
\* the caller's, and the database may hold any record for the archive.
ProcRecords ==
    {PboInfo(hash, FALSE, None, Some(<<NameSqf>>), Some(<<NameSqf>>)) : hash \in DbHashes}
        \cup {PboInfo(hash, TRUE, Some("Failed"), None, None) : hash \in DbHashes}
        \cup {PboInfo(hash, FALSE, None, None, None) : hash \in DbHashes}

\* A name the caller expects that no entry of the archive has.
NameMissing == <<"z", ".", "s", "q", "f">>

ProcScanResults ==
    [path : {PboA}, hash : DbHashes,
     expected_files : {<<>>, <<NameSqf>>, <<NameMissing>>}]

\* The scan result of the second archive, when there is one.
SiblingScanResult ==
    [path |-> PboAB, hash |-> Sha256Hex(<<49>>), expected_files |-> <<NameSqf>>]

ProcInit ==
    /\ inputExists = TRUE
    /\ files = [p \in InputPaths |-> File(<<80>>, 1, TRUE)]
    /\ dbFile = NoDoc
    /\ disk = {}
    /\ pc = "stage3"
    /\ result = ErrResult("not called")
    /\ \E own \in {EmptyDb} \cup {Insert(EmptyDb, PboA, r) : r \in ProcRecords} :
          db \in {own, Insert(own, PboAB,
                              PboInfo(SiblingScanResult.hash, FALSE, None,
                                      Some(<<NameSqf>>), Some(<<NameSqf>>)))}
    /\ todo = <<>>
    /\ \E sr \in ProcScanResults :
          \E scan_results \in {<<sr>>, <<sr, SiblingScanResult>>} :
              /\ hashResults = [i \in 1..Len(scan_results) |->
                                  [path |-> scan_results[i].path,
                                   hash |-> scan_results[i].hash]]
              /\ scan = [p \in PboPaths |->
                           IF \E i \in 1..Len(scan_results) : scan_results[i].path = p
                           THEN [st |-> "ok",
                                 expected_files |->
                                     scan_results[CHOOSE i \in 1..Len(scan_results) :
                                                      scan_results[i].path = p].expected_files]
                           ELSE NoScan]
    /\ proc = [p \in PboPaths |->
                 IF scan[p].st = "ok" THEN [NoProc EXCEPT !.pc = "start"] ELSE NoProc]
    /\ run = 1
    /\ reached = "stage3"
    /\ lastCheck = None
    /\ calls = [p \in PboPaths |-> NoCalls]
    /\ startDoc = dbFile
    /\ lastCall = None
    /\ guardCount = None
    /\ cacheDir \in {c \in CacheDirs : c.exists}

\* process_all returns once every process_pbo has returned.
ProcessAllReturns ==
    /\ pc = "stage3"
    /\ \A p \in PboPaths : proc[p].pc \in {"idle", "done"}
    /\ result' = ProcessAllResult({proc[p].ret : p \in ScanPaths})
    /\ pc' = "returned"
    /\ reached' = "final"
    /\ UNCHANGED <<cacheDir, guardCount, inputExists, files, dbFile, disk, db, todo,
                   hashResults, scan, proc, run, lastCheck, calls, startDoc, lastCall>>

ProcNext ==
    \/ \E p \in PboPaths : ProcessStart(p)
    \/ \E p \in PboPaths : RecordNoMatching(p)
    \/ \E p \in PboPaths : PrepareOutputDirs(p)
    \/ \E p \in PboPaths : ExtractAttempt(p)
    \/ \E p \in PboPaths : VerifyExtraction(p)
    \/ ProcessAllReturns

ProcSpec == ProcInit /\ [][ProcNext]_vars

\* The database holds for the archive a record that is not failed and
\* carries the hash of the archive's scan result.
HoldsSuccessAtScanHash(p) ==
    LET info == GetPboInfo(db, p)
    IN  IsSome(info) /\ ~Unwrap(info).failed /\ Unwrap(info).hash = HashOf(p)

\* C30: the step in which process_pbo takes up a scan result whose archive
\* has a Success record with the hash of the scan result ends process_pbo,
\* whether or not files are expected, with no listing or extraction call
\* and with the record as it was; from then on no call is made for the
\* archive and its record stays.
C30_SkipPrecedesEveryStep ==
    [][\A p \in PboPaths :
          /\ (pc = "stage3" /\ proc[p].pc = "start" /\ proc'[p] # proc[p]
                /\ HoldsSuccessAtScanHash(p)) =>
                 /\ proc'[p].pc = "done"
                 /\ proc'[p].ret = "ok"
                 /\ proc'[p].tried = <<>>
                 /\ calls'[p] = calls[p]
                 /\ GetPboInfo(db', p) = GetPboInfo(db, p)
          /\ (pc = "stage3" /\ proc[p].pc = "done") =>
                 /\ proc'[p] = proc[p]
                 /\ calls'[p] = calls[p]
                 /\ GetPboInfo(db', p) = GetPboInfo(db, p)]_vars

\* process_all has returned; a.pbo, for which nothing was expected, was
\* skipped and keeps its Success record with both lists, while a/b.pbo was
\* extracted beside it.
C30_Witness ==
    /\ reached = "final"
    /\ scan[PboA].expected_files = <<>>
    /\ proc[PboA].pc = "done"
    /\ calls[PboA] = {}
    /\ GetPboInfo(db, PboA) =
           Some(PboInfo(HashOf(PboA), FALSE, None, Some(<<NameSqf>>), Some(<<NameSqf>>)))
    /\ proc[PboAB].count > 0
    /\ "extract" \in calls[PboAB]

\* process_pbo has returned the error of prepare_output_dirs although
\* directories can be created below the cache directory: list_contents
\* failed.
PrefixListingFailed(p) ==
    /\ reached \in {"stage3", "final"}
    /\ proc[p].pc = "done"
    /\ proc[p].ret = "err"
    /\ cacheDir.writable

\* C31: when the listing made for the prefix fails, the archive's record is
\* Failed with reason InvalidFormat at the hash of its scan result, whatever
\* the record was before, and no extraction call is made for the archive.
C31_PrefixListingFailureRecorded ==
    \A p \in PboPaths :
        PrefixListingFailed(p) =>
            /\ GetPboInfo(db, p) =
                   Some(PboInfo(HashOf(p), TRUE, Some("InvalidFormat"), None, None))
            /\ "extract" \notin calls[p]
            /\ proc[p].tried = <<>>

\* The listing for the prefix of a.pbo failed in a call that had loaded a
\* record of a.pbo as processed.
C31_Witness ==
    /\ PrefixListingFailed(PboA)
    /\ startDoc.exists
    /\ Parseable(startDoc)
    /\ PboA \in DOMAIN startDoc.pbos
    /\ ~startDoc.pbos[PboA].failed
    /\ db[PboA].failed

\* The last extraction call made for the archive reported success.
StrategySucceeded(p) ==
    proc[p].tried # <<>> /\ proc[p].tried[Len(proc[p].tried)].ok

\* C32: when process_pbo has returned after a strategy reported success and
\* no regular file was counted below the output directory, the archive's
\* record is Failed with reason Empty at the hash of its scan result.
C32_EmptyExtractionRecorded ==
    \A p \in PboPaths :
        (reached \in {"stage3", "final"} /\ proc[p].pc = "done"
            /\ StrategySucceeded(p) /\ proc[p].count = 0) =>
                GetPboInfo(db, p) =
                    Some(PboInfo(HashOf(p), TRUE, Some("Empty"), None, None))

\* The second strategy reported success for a.pbo and wrote nothing.
C32_Witness ==
    /\ proc[PboA].pc = "done"
    /\ Len(proc[PboA].tried) = 2
    /\ proc[PboA].tried[2].ok
    /\ proc[PboA].tried[2].written = {}
    /\ proc[PboA].count = 0
    /\ RecordedEmpty(PboA)

ArchiveNames == {NameSqf, NameTxt, NameBin, NameNoExt}

\* process_pbo has returned for a scan result whose expected files are
\* none of them entries of the archive.
MissingExpectedDone(p) ==
    /\ ProcessDone(p)
    /\ scan[p].expected_files # <<>>
    /\ Range(scan[p].expected_files) \cap ArchiveNames = {}

C35_FileFilterSelectsScannedEntries ==
    (IsSome(lastCall) /\ Unwrap(lastCall).op = "create_extract_options") =>
        LET c == Unwrap(lastCall)
        IN  /\ IsSome(c.file_filter)
            /\ \A name \in MatchNames :
                  MatchesExtension(name, Unwrap(c.file_filter)) <=>
                      MatchesExtension(name, c.extensions)

\* C36: when process_pbo has returned after a strategy that reported success
\* and wrote no file, no file was counted below the output directory and
\* the archive is recorded Failed with reason Empty.
C36_CountIsOfOwnFiles ==
    \A p \in PboPaths :
        (ProcessDone(p) /\ StrategySucceeded(p)
            /\ proc[p].tried[Len(proc[p].tried)].written = {}) =>
                /\ proc[p].count = 0
                /\ RecordedEmpty(p)

\* The run has written the record of the archive: it is not the record the
\* run loaded.
RecordWritten(p) ==
    /\ run >= 1
    /\ Constructed
    /\ p \in DOMAIN db
    /\ GetPboInfo(db, p) # GetPboInfo(Loaded, p)

\* The archive has not been rewritten since the run began.
AsAtStage1(p) == files[p].exists /\ files[p].mtime <= run

\* C37: a record the run has written carries the hash check_pbo_hash
\* computed for the archive in the prescan of the run, which is the hash of
\* the archive as it was then.
C37_RecordsCarryStage1Hash ==
    \A p \in PboPaths :
        RecordWritten(p) =>
            /\ p \in HashPaths
            /\ db[p].hash = HashOf(p)
            /\ AsAtStage1(p) =>
                   /\ CalculateFileHash(files[p]).ok
                   /\ db[p].hash = CalculateFileHash(files[p]).hash

\* A second run has written records of both archives, which have different
\* hashes; the one of a.pbo replaces a record with another hash.
C37_Witness ==
    /\ run = 2
    /\ reached = "final"
    /\ RecordWritten(PboA)
    /\ RecordWritten(PboAB)
    /\ db[PboA].hash # db[PboAB].hash
    /\ PboA \in DOMAIN Loaded
    /\ Loaded[PboA].hash # db[PboA].hash

\* The reasons process_pbo records with a failure.
FailureReasons ==
    {"NoMatchingFiles", "InvalidFormat", "Failed", "Empty", "MissingExpectedFiles"}

\* The archive's record tells one outcome of this call: processed, or
\* failed with one of the reasons, at the hash of the scan result.
HasTerminalOutcome(p) ==
    /\ p \in DOMAIN db
    /\ db[p].hash = HashOf(p)
    /\ IF db[p].failed
       THEN IsSome(db[p].skip_reason) /\ Unwrap(db[p].skip_reason) \in FailureReasons
       ELSE db[p].skip_reason = None

\* C38: for every archive handed to process_pbo at most three extraction
\* calls are made, a listing for the prefix is made before any of them, and
\* when process_pbo has returned the archive's record tells exactly one of
\* the outcomes: processed (skipped or extracted), NoMatchingFiles,
\* InvalidFormat, Failed, Empty or MissingExpectedFiles; and when run has
\* returned after the extraction stage every archive handed to it is in
\* that case.
C38_OneTerminalOutcome ==
    \A p \in PboPaths :
        /\ Len(proc[p].tried) <= Len(Strategies)
        /\ proc[p].tried # <<>> => "list" \in calls[p]
        /\ ProcessDone(p) => HasTerminalOutcome(p)
        /\ (pc = "returned" /\ reached = "final" /\ p \in ScanPaths) => ProcessDone(p)

\* The record an update call stores, told from its arguments alone.
RecordOfCall(c) ==
    IF c.op = "update_pbo"
    THEN [hash |-> c.hash, failed |-> c.failed, skip_reason |-> None,
          expected_files |-> None, extracted_files |-> None]
    ELSE IF c.op = "update_pbo_with_reason"
         THEN [hash |-> c.hash, failed |-> c.failed, skip_reason |-> Some(c.reason),
               expected_files |-> None, extracted_files |-> None]
         ELSE [hash |-> c.hash, failed |-> c.extracted_files = <<>>,
               skip_reason |-> IF c.extracted_files = <<>>
                               THEN Some("MissingExpectedFiles") ELSE None,
               expected_files |-> Some(c.expected_files),
               extracted_files |-> Some(c.extracted_files)]

UpdateOps == {"update_pbo", "update_pbo_with_reason", "update_pbo_with_files"}

\* C39: a call of update_pbo, update_pbo_with_reason or
\* update_pbo_with_files leaves for its path the record its arguments tell,
\* whatever the record was, and leaves the other paths with the records
\* they had, and none where they had none; get_pbo_info and get_stats leave
\* the database as it was.
C39_UpdateReplacesOneRecord ==
    [][IsSome(lastCall') =>
          LET c == Unwrap(lastCall')
          IN  IF c.op \in UpdateOps
              THEN /\ GetPboInfo(db', c.path) = Some(RecordOfCall(c))
                   /\ \A q \in PboPaths \ {c.path} :
                          GetPboInfo(db', q) = GetPboInfo(db, q)
              ELSE db' = db]_vars

\* update_pbo has replaced the record of a.pbo, and a/b.pbo has the record
\* with file lists an earlier call gave it.
C39_Witness ==
    /\ IsSome(lastCall)
    /\ Unwrap(lastCall).op = "update_pbo"
    /\ Unwrap(lastCall).path = PboA
    /\ db[PboA] = PboInfo(Unwrap(lastCall).hash, Unwrap(lastCall).failed, None, None, None)
    /\ PboAB \in DOMAIN db
    /\ db[PboAB].extracted_files = Some(<<NameSqf, NameBin>>)

\* ------------------------------------- calculate_file_hash of two files

\* Contents of the two files: one byte, exactly the buffer's length, and
\* ten times the buffer's length and one byte more, all of one value.
DigestContents ==
    {<<80>>, Fill(HashPrefixLen, 80), Fill(10 * HashPrefixLen + 1, 80)}

\* Modification times in seconds since the UNIX epoch: early in 1970, in
\* 1992 and in 2023.
DigestMtimes == {1, 11, 700000000, 1700000000}

\* Two readable files, at the paths of the two archives, not hashed yet.
DigestInit ==
    /\ inputExists = TRUE
    /\ \E fa \in [content : DigestContents, mtime : DigestMtimes],
          fb \in [content : DigestContents, mtime : DigestMtimes] :
          files = [p \in InputPaths |->
                      IF p = PboA THEN File(fa.content, fa.mtime, TRUE)
                      ELSE IF p = PboAB THEN File(fb.content, fb.mtime, TRUE)
                      ELSE NoFile]
    /\ dbFile = NoDoc
    /\ disk = {}
    /\ pc = "returned"
    /\ result = ErrResult("not called")
    /\ db = EmptyDb
    /\ todo = <<>>
    /\ hashResults = <<>>
    /\ scan = [p \in PboPaths |-> NoScan]
    /\ proc = [p \in PboPaths |-> NoProc]
    /\ run = 0
    /\ reached = "none"
    /\ lastCheck = None
    /\ calls = [p \in PboPaths |-> NoCalls]
    /\ startDoc = NoDoc
    /\ lastCall = None
    /\ guardCount = None
    /\ cacheDir = [exists |-> FALSE, writable |-> TRUE]

\* calculate_file_hash of the one file and of the other.
HashBoth ==
    /\ lastCall = None
    /\ lastCall' = Some([op |-> "calculate_file_hash twice",
                         a |-> CalculateFileHash(files[PboA]),
                         b |-> CalculateFileHash(files[PboAB])])
    /\ UNCHANGED files
    /\ UNCHANGED hashVars

DigestNext == HashBoth

DigestSpec == DigestInit /\ [][DigestNext]_vars

\* What the digest is meant to tell of a file: its size, its modification
\* time in whole seconds and its first HashPrefixLen bytes.
TripleOf(f) == <<Len(f.content), f.mtime, HeadOf(f)>>

\* C40: two files that differ in size, in modification time or in their
\* first HashPrefixLen bytes, in one of them or in several at once, feed
\* different bytes to the digest and so have different hashes.
C40_DigestInputTellsTriple ==
    (IsSome(lastCall) /\ Unwrap(lastCall).op = "calculate_file_hash twice") =>
        LET c == Unwrap(lastCall)
        IN  /\ c.a.ok
            /\ c.b.ok
            /\ TripleOf(files[PboA]) # TripleOf(files[PboAB]) => c.a.hash # c.b.hash

====
